---- MODULE Spec2Model ----
(***************************************************************************)
(* Model of the ftdi-embedded-hal protocol engine: the pin registry of a   *)
(* device session (FtInner), the peripheral handles acquired from it, the  *)
(* I2C engine with its slow and fast strategies and the SPI engine.        *)
(*                                                                         *)
(* Every operation of the library takes the session mutex for its whole    *)
(* body, so one operation is one action.  What an operation hands to the   *)
(* transport is kept in last.io as the ordered list of its send and recv   *)
(* calls; the chip answers every batch it is sent in issuance order and    *)
(* the unread answers are kept in rxq.                                     *)
(***************************************************************************)
EXTENDS Integers, Sequences, FiniteSets, TLC

(***************************************************************************)
(* Bounds of the model.                                                    *)
(***************************************************************************)
\* acquisition calls made on one session
MaxAcq == 2
\* longest payload / read buffer handed to an I2C or SPI operation
MaxLen == 2
\* largest start_stop_cmds value given to set_stop_start_len
MaxMargin == 1
\* most unread response bytes the model lets pile up before an SPI call
MaxPending == 2

(***************************************************************************)
(* u8 arithmetic.                                                          *)
(***************************************************************************)
Bit(x, i) == (x \div (2 ^ i)) % 2

Or8(x, y) ==
    LET b(i) == IF Bit(x, i) = 1 \/ Bit(y, i) = 1 THEN 2 ^ i ELSE 0
    IN  b(0) + b(1) + b(2) + b(3) + b(4) + b(5) + b(6) + b(7)

And8(x, y) ==
    LET b(i) == IF Bit(x, i) = 1 /\ Bit(y, i) = 1 THEN 2 ^ i ELSE 0
    IN  b(0) + b(1) + b(2) + b(3) + b(4) + b(5) + b(6) + b(7)

Not8(x) == 255 - x

\* C28 mutant: the shift keeps the bits that leave the byte
Shl8_NoWrap(x, n) == x * (2 ^ n)

Shl8(x, n) == (x * (2 ^ n)) % 256

(***************************************************************************)
(* The pin registry.                                                       *)
(***************************************************************************)
None == "None"
PinUse == {"I2c", "Spi", "Output", "Input"}
NumPins == 8
PinIdx == 0 .. (NumPins - 1)

VARIABLES
    pins,       \* FtInner.pins: owner of each pin of the lower bank, or None
    direction,  \* FtInner.direction
    value,      \* FtInner.value
    poisoned,   \* the session mutex was held by an operation that panicked
    handles,    \* the peripheral handles that are alive
    slave,      \* how the I2C slave answers: the ACK positions it NAKs
    rxq,        \* response bytes produced by the chip and not yet received
    nacq,       \* acquisition calls made so far
    last,       \* the last operation: its arguments, result and transport calls
    session,    \* "closed" before init, "mpsse" or "sbb" after it, "failed"
    ninit,      \* init calls made so far
    fault,      \* which transport call of an operation fails (0: none)
    upper,      \* FtInnerSbb.upper: the GpioByte of the upper bank
    latch,      \* the byte the bit-bang chip drives on its output pins
    wlog,       \* the bytes written to the bit-bang chip, with the call that wrote
    lock,       \* the thread that holds the session mutex, or NoThread
    pc,         \* per thread: the operation it is in and the calls it still makes
    wire        \* the transport calls of the operations in flight, in order

vars == <<pins, direction, value, poisoned, handles, slave, rxq, nacq, last,
          session, ninit, fault, upper, latch, wlog, lock, pc, wire>>

sessVars == <<session, ninit>>
sbbVars == <<upper, latch, wlog>>
concVars == <<lock, pc, wire>>

Inner == [pins |-> pins, direction |-> direction, value |-> value, panicked |-> FALSE]

\* C1 mutant: the entry is overwritten before the conflict is reported
allocate_pin_WriteThenPanic(inner, idx, purpose) ==
    IF idx \notin PinIdx
    THEN [inner EXCEPT !.panicked = TRUE]
    ELSE IF inner.pins[idx] # None
         THEN [inner EXCEPT !.pins[idx] = purpose, !.panicked = TRUE]
         ELSE [inner EXCEPT !.pins[idx] = purpose]

\* C2 mutant: an owned pin is silently re-tagged
allocate_pin_Retag(inner, idx, purpose) ==
    IF idx \notin PinIdx
    THEN [inner EXCEPT !.panicked = TRUE]
    ELSE [inner EXCEPT !.pins[idx] = purpose]

allocate_pin(inner, idx, purpose) ==
    IF idx \notin PinIdx
    THEN [inner EXCEPT !.panicked = TRUE]
    ELSE IF inner.pins[idx] # None
         THEN [inner EXCEPT !.panicked = TRUE]
         ELSE [inner EXCEPT !.pins[idx] = purpose]

\* C35 mutant: only the first allocate_pin of an acquisition checks the owner
AndThen_Unchecked(inner, idx, purpose) ==
    IF inner.panicked \/ idx \notin PinIdx
    THEN [inner EXCEPT !.panicked = TRUE]
    ELSE [inner EXCEPT !.pins[idx] = purpose]

\* the next statement of a function body: not reached once a panic unwinds
AndThen(inner, idx, purpose) ==
    IF inner.panicked THEN inner ELSE allocate_pin(inner, idx, purpose)

(***************************************************************************)
(* MPSSE commands and transport calls.                                     *)
(***************************************************************************)
Cmd(op, mode, x, y, data) == [op |-> op, mode |-> mode, x |-> x, y |-> y, data |-> data]

\* C25 mutant: value and direction change places
set_gpio_lower_Swapped(v, d) == Cmd("set_gpio_lower", "", d, v, <<>>)

set_gpio_lower(v, d) == Cmd("set_gpio_lower", "", v, d, <<>>)
clock_bits_out(mode, byte, n) == Cmd("clock_bits_out", mode, byte, n, <<>>)
clock_bits_in(mode, n) == Cmd("clock_bits_in", mode, 0, n, <<>>)
clock_data(mode, data) == Cmd("clock_data", mode, 0, 0, data)
clock_data_out(mode, data) == Cmd("clock_data_out", mode, 0, 0, data)
enable_3phase_data_clocking == Cmd("enable_3phase_data_clocking", "", 0, 0, <<>>)
send_immediate == Cmd("send_immediate", "", 0, 0, <<>>)
gpio_lower == Cmd("gpio_lower", "", 0, 0, <<>>)

SendEv(cmds) == [ev |-> "send", cmds |-> cmds, n |-> 0, bytes |-> <<>>, err |-> FALSE]
RecvEv(n, bytes) == [ev |-> "recv", cmds |-> <<>>, n |-> n, bytes |-> bytes, err |-> FALSE]

\* a transport call that returned Err
Failed(e) == [e EXCEPT !.err = TRUE]

\* the next transport call of an operation that has made the calls io is the one
\* that fails, or the one after it is
Fails(io, ahead) == fault # 0 /\ Len(io) + ahead = fault

Outcome(inner, io, result) == [inner |-> inner, io |-> io, result |-> result]

\* mtx.lock().expect(..) on a mutex poisoned by an earlier panic
LockPanic(inner) == Outcome(inner, <<>>, "Panic")

(***************************************************************************)
(* Acquisitions.                                                           *)
(***************************************************************************)
OutputPin_new(inner, idx) ==
    LET a == allocate_pin(inner, idx, "Output")
    IN  IF a.panicked
        THEN Outcome(a, <<>>, "Panic")
        ELSE LET st == [a EXCEPT !.direction = Or8(a.direction, Shl8(1, idx))]
             IN  Outcome(st,
                         <<SendEv(<<set_gpio_lower(st.value, st.direction), send_immediate>>)>>,
                         "Ok")

InputPin_new(inner, idx) ==
    LET a == allocate_pin(inner, idx, "Input")
    IN  IF a.panicked
        THEN Outcome(a, <<>>, "Panic")
        ELSE LET st == [a EXCEPT !.direction = And8(a.direction, Not8(Shl8(1, idx)))]
             IN  Outcome(st,
                         <<SendEv(<<set_gpio_lower(st.value, st.direction), send_immediate>>)>>,
                         "Ok")

\* C3 mutant: the pins are configured on the chip before the last ownership check
Spi_new_SendFirst(inner) ==
    LET a0 == allocate_pin(inner, 0, "Spi")
        a1 == AndThen(a0, 1, "Spi")
        d  == Or8(And8(inner.direction, Not8(7)), 3)
        io == IF a1.panicked THEN <<>>
              ELSE <<SendEv(<<set_gpio_lower(inner.value, d), send_immediate>>)>>
        a2 == AndThen(a1, 2, "Spi")
    IN  IF a2.panicked
        THEN Outcome(a2, io, "Panic")
        ELSE Outcome([a2 EXCEPT !.direction = d], io, "Ok")

\* a variant in which the direction mask is overwritten, not edited in bits 0..2
Spi_new_OverwritesDirection(inner) ==
    LET a0 == allocate_pin(inner, 0, "Spi")
        a1 == AndThen(a0, 1, "Spi")
        a2 == AndThen(a1, 2, "Spi")
    IN  IF a2.panicked
        THEN Outcome(a2, <<>>, "Panic")
        ELSE LET st == [a2 EXCEPT !.direction = 3]
             IN  Outcome(st,
                         <<SendEv(<<set_gpio_lower(st.value, st.direction), send_immediate>>)>>,
                         "Ok")

Spi_new(inner) ==
    LET a0 == allocate_pin(inner, 0, "Spi")
        a1 == AndThen(a0, 1, "Spi")
        a2 == AndThen(a1, 2, "Spi")
    IN  IF a2.panicked
        THEN Outcome(a2, <<>>, "Panic")
        ELSE LET st == [a2 EXCEPT !.direction = Or8(And8(a2.direction, Not8(7)), 3)]
             IN  Outcome(st,
                         <<SendEv(<<set_gpio_lower(st.value, st.direction), send_immediate>>)>>,
                         "Ok")

SpiDevice_new(inner, cs_idx) ==
    LET a0 == allocate_pin(inner, 0, "Spi")
        a1 == AndThen(a0, 1, "Spi")
        a2 == AndThen(a1, 2, "Spi")
        a3 == AndThen(a2, cs_idx, "Output")
    IN  IF a3.panicked
        THEN Outcome(a3, <<>>, "Panic")
        ELSE LET cs_mask == Shl8(1, cs_idx)
                 cleared == And8(a3.direction, Not8(Or8(7, cs_mask)))
                 st == [a3 EXCEPT !.direction = Or8(cleared, Or8(3, cs_mask))]
             IN  Outcome(st,
                         <<SendEv(<<set_gpio_lower(st.value, st.direction), send_immediate>>)>>,
                         "Ok")

I2c_new(inner) ==
    LET a0 == allocate_pin(inner, 0, "I2c")
        a1 == AndThen(a0, 1, "I2c")
        a2 == AndThen(a1, 2, "I2c")
    IN  IF a2.panicked
        THEN Outcome(a2, <<>>, "Panic")
        ELSE LET st == [a2 EXCEPT !.direction = And8(a2.direction, Not8(7)),
                                  !.value = And8(a2.value, Not8(7))]
             IN  Outcome(st,
                         <<SendEv(<<set_gpio_lower(st.value, st.direction),
                                    enable_3phase_data_clocking,
                                    send_immediate>>)>>,
                         "Ok")

\* C29 mutant: set_low masks the byte with the pin's mask, not with its complement
OutputPin_set_LowKeepsOwnBit(inner, idx, state) ==
    LET mask == Shl8(1, idx)
        v == IF state THEN Or8(inner.value, mask) ELSE And8(inner.value, mask)
        st == [inner EXCEPT !.value = v]
    IN  Outcome(st,
                <<SendEv(<<set_gpio_lower(st.value, st.direction), send_immediate>>)>>,
                "Ok")

OutputPin_set(inner, idx, state) ==
    LET mask == Shl8(1, idx)
        v == IF state THEN Or8(inner.value, mask) ELSE And8(inner.value, Not8(mask))
        st == [inner EXCEPT !.value = v]
    IN  Outcome(st,
                <<SendEv(<<set_gpio_lower(st.value, st.direction), send_immediate>>)>>,
                "Ok")

(***************************************************************************)
(* The chip and the I2C slave behind it.                                   *)
(***************************************************************************)
RECURSIVE Flatten(_)
Flatten(ss) == IF ss = <<>> THEN <<>> ELSE Head(ss) \o Flatten(Tail(ss))

\* C8 mutant: the margin loops run one time too few
Rep_OneShort(n, c) == [i \in 1 .. (n - 1) |-> c]

\* for _ in 0..n { cmd = cmd.c }
Rep(n, c) == [i \in 1 .. n |-> c]

Zeros(n) == [i \in 1 .. n |-> 0]

Min(a, b) == IF a < b THEN a ELSE b

\* the k-th ACK sample of a transaction: bit 0 tells ACK (0) from NAK (1), the
\* other seven bits are whatever was shifted in before
AckSample(sl, k) == (IF k % 2 = 1 THEN 254 ELSE 0) + (IF k \in sl THEN 1 ELSE 0)

\* the j-th data byte the slave returns in a transaction
DataByte(j) == (60 + 17 * j) % 256

\* the response bytes of the commands cmds[i..], in issuance order; ackn and
\* datan count the ACK samples and data bytes the transaction has produced so far
RECURSIVE ChipExec(_, _, _, _, _)
ChipExec(cmds, i, sl, ackn, datan) ==
    IF i > Len(cmds) THEN <<>>
    ELSE LET c == cmds[i]
         IN  IF c.op = "clock_bits_in" /\ c.y = 1
             THEN <<AckSample(sl, ackn + 1)>> \o ChipExec(cmds, i + 1, sl, ackn + 1, datan)
             ELSE IF c.op = "clock_bits_in"
             THEN <<DataByte(datan + 1)>> \o ChipExec(cmds, i + 1, sl, ackn, datan + 1)
             ELSE IF c.op = "clock_data"
             THEN c.data \o ChipExec(cmds, i + 1, sl, ackn, datan)
             ELSE ChipExec(cmds, i + 1, sl, ackn, datan)

CountOp(cmds, op, bits) ==
    Cardinality({i \in 1 .. Len(cmds) : cmds[i].op = op /\ cmds[i].y = bits})

(***************************************************************************)
(* The I2C engine.  Each strategy is the list of its round trips: the      *)
(* batch written, then the number of bytes read into ack_buf and into the  *)
(* caller's buffer.                                                        *)
(***************************************************************************)
SCL == 1
SDA == 2
BITS_IN == "MsbPos"
BITS_OUT == "MsbNeg"
DefaultStartStopCmds == 3

\* C4 mutant: every new batch starts by writing the pin state again
Trip_PinsFirst(cmds, nack, ndata) ==
    [cmds |-> << set_gpio_lower(0, 0) >> \o cmds, nack |-> nack, ndata |-> ndata]

\* C23 mutant: ack_buf is one byte shorter than the ACK samples of a batch
Trip_AckBufShort(cmds, nack, ndata) ==
    [cmds |-> cmds, nack |-> IF nack > 1 THEN nack - 1 ELSE nack, ndata |-> ndata]

Trip(cmds, nack, ndata) == [cmds |-> cmds, nack |-> nack, ndata |-> ndata]

\* C5 mutant: the sample is compared as a whole byte
IsNak_WholeByte(ack) == ack # 0

IsNak(ack) == And8(ack, 1) # 0

\* C27 mutant: every byte read is answered with the master NAK
read_fast_NakEveryByte(address, n, m, v, d) ==
    LET v_scl_sda == Or8(Or8(v, SCL), SDA)
        v_scl == Or8(v, SCL)
        d_scl_sda == Or8(Or8(SCL, SDA), d)
        d_scl == Or8(SCL, d)
        st == Rep(m, set_gpio_lower(v_scl_sda, d_scl_sda))
              \o Rep(m, set_gpio_lower(v_scl, d_scl_sda))
        sad == << set_gpio_lower(v, d_scl_sda),
                  clock_bits_out(BITS_OUT, Or8(Shl8(address, 1), 1), 8),
                  set_gpio_lower(v, d_scl),
                  clock_bits_in(BITS_IN, 1) >>
        bn(idx) == << set_gpio_lower(v, d_scl),
                      clock_bits_in(BITS_IN, 8),
                      set_gpio_lower(v, d_scl_sda),
                      clock_bits_out(BITS_OUT, 128, 1) >>
        sp == Rep(m, set_gpio_lower(v, d_scl_sda))
              \o Rep(m, set_gpio_lower(v_scl, d_scl_sda))
              \o Rep(m, set_gpio_lower(v_scl_sda, d_scl_sda))
        idle == << set_gpio_lower(v, d), send_immediate >>
    IN  << Trip(st \o sad \o Flatten([k \in 1 .. n |-> bn(k - 1)]) \o sp \o idle, 1, n) >>

read_fast(address, n, m, v, d) ==
    LET v_scl_sda == Or8(Or8(v, SCL), SDA)
        v_scl == Or8(v, SCL)
        d_scl_sda == Or8(Or8(SCL, SDA), d)
        d_scl == Or8(SCL, d)
        st == Rep(m, set_gpio_lower(v_scl_sda, d_scl_sda))
              \o Rep(m, set_gpio_lower(v_scl, d_scl_sda))
        sad == << set_gpio_lower(v, d_scl_sda),
                  clock_bits_out(BITS_OUT, Or8(Shl8(address, 1), 1), 8),
                  set_gpio_lower(v, d_scl),
                  clock_bits_in(BITS_IN, 1) >>
        bn(idx) == << set_gpio_lower(v, d_scl),
                      clock_bits_in(BITS_IN, 8),
                      set_gpio_lower(v, d_scl_sda),
                      clock_bits_out(BITS_OUT, IF idx = n - 1 THEN 128 ELSE 0, 1) >>
        sp == Rep(m, set_gpio_lower(v, d_scl_sda))
              \o Rep(m, set_gpio_lower(v_scl, d_scl_sda))
              \o Rep(m, set_gpio_lower(v_scl_sda, d_scl_sda))
        idle == << set_gpio_lower(v, d), send_immediate >>
    IN  << Trip(st \o sad \o Flatten([k \in 1 .. n |-> bn(k - 1)]) \o sp \o idle, 1, n) >>

read_slow(address, n, m, v, d) ==
    LET v_scl_sda == Or8(Or8(v, SCL), SDA)
        v_scl == Or8(v, SCL)
        d_scl_sda == Or8(Or8(SCL, SDA), d)
        d_scl == Or8(SCL, d)
        st == Rep(m, set_gpio_lower(v_scl_sda, d_scl_sda))
              \o Rep(m, set_gpio_lower(v_scl, d_scl_sda))
        sad == << set_gpio_lower(v, d_scl_sda),
                  clock_bits_out(BITS_OUT, Or8(Shl8(address, 1), 1), 8),
                  set_gpio_lower(v, d_scl),
                  clock_bits_in(BITS_IN, 1),
                  send_immediate >>
        bn(idx) == << set_gpio_lower(v, d_scl),
                      clock_bits_in(BITS_IN, 8),
                      set_gpio_lower(v, d_scl_sda),
                      clock_bits_out(BITS_OUT, IF idx = n - 1 THEN 128 ELSE 0, 1) >>
        sp == Rep(m, set_gpio_lower(v, d_scl_sda))
              \o Rep(m, set_gpio_lower(v_scl, d_scl_sda))
              \o Rep(m, set_gpio_lower(v_scl_sda, d_scl_sda))
        idle == << set_gpio_lower(v, d), send_immediate >>
    IN  << Trip(st \o sad, 1, 0),
           Trip(Flatten([k \in 1 .. n |-> bn(k - 1)]) \o sp \o idle, 0, n) >>

write_fast(addr, bytes, m, v, d) ==
    LET v_scl_sda == Or8(Or8(v, SCL), SDA)
        v_scl == Or8(v, SCL)
        d_scl_sda == Or8(Or8(SCL, SDA), d)
        d_scl == Or8(SCL, d)
        st == Rep(m, set_gpio_lower(v_scl_sda, d_scl_sda))
              \o Rep(m, set_gpio_lower(v_scl, d_scl_sda))
        sad == << set_gpio_lower(v, d_scl_sda),
                  clock_bits_out(BITS_OUT, Shl8(addr, 1), 8),
                  set_gpio_lower(v, d_scl),
                  clock_bits_in(BITS_IN, 1) >>
        bi(byte) == << set_gpio_lower(v, d_scl_sda),
                       clock_bits_out(BITS_OUT, byte, 8),
                       set_gpio_lower(v, d_scl),
                       clock_bits_in(BITS_IN, 1) >>
        sp == Rep(m, set_gpio_lower(v, d_scl_sda))
              \o Rep(m, set_gpio_lower(v_scl, d_scl_sda))
              \o Rep(m, set_gpio_lower(v_scl_sda, d_scl_sda))
        idle == << set_gpio_lower(v, d), send_immediate >>
    IN  << Trip(st \o sad \o Flatten([k \in 1 .. Len(bytes) |-> bi(bytes[k])]) \o sp \o idle,
                1 + Len(bytes), 0) >>

\* C36 mutant: the first START step is built without the recorded value
write_slow_ForgetsValue(addr, bytes, m, v, d) ==
    LET scl_sda_v == Or8(SCL, SDA)
        scl_v == Or8(SCL, v)
        v_scl_sda == Or8(Or8(v, SCL), SDA)
        v_scl == Or8(v, SCL)
        d_scl_sda == Or8(Or8(SCL, SDA), d)
        d_scl == Or8(SCL, d)
        st == Rep(m, set_gpio_lower(scl_sda_v, d_scl_sda))
              \o Rep(m, set_gpio_lower(scl_v, d_scl_sda))
        sad == << set_gpio_lower(v, d_scl_sda),
                  clock_bits_out(BITS_OUT, Shl8(addr, 1), 8),
                  set_gpio_lower(v, d_scl),
                  clock_bits_in(BITS_IN, 1),
                  send_immediate >>
        sp == Rep(m, set_gpio_lower(v, d_scl_sda))
              \o Rep(m, set_gpio_lower(v_scl, d_scl_sda))
              \o Rep(m, set_gpio_lower(v_scl_sda, d_scl_sda))
        idle == << set_gpio_lower(v, d) >>
        bi(idx) == << set_gpio_lower(v, d_scl_sda),
                      clock_bits_out(BITS_OUT, bytes[idx + 1], 8),
                      set_gpio_lower(v, d_scl),
                      clock_bits_in(BITS_IN, 1) >>
                   \o (IF idx = Len(bytes) - 1 THEN sp \o idle ELSE <<>>)
                   \o << send_immediate >>
    IN  << Trip(st \o sad, 1, 0) >> \o [k \in 1 .. Len(bytes) |-> Trip(bi(k - 1), 1, 0)]

write_slow(addr, bytes, m, v, d) ==
    LET scl_sda_v == Or8(Or8(SCL, SDA), v)
        scl_v == Or8(SCL, v)
        v_scl_sda == Or8(Or8(v, SCL), SDA)
        v_scl == Or8(v, SCL)
        d_scl_sda == Or8(Or8(SCL, SDA), d)
        d_scl == Or8(SCL, d)
        st == Rep(m, set_gpio_lower(scl_sda_v, d_scl_sda))
              \o Rep(m, set_gpio_lower(scl_v, d_scl_sda))
        sad == << set_gpio_lower(v, d_scl_sda),
                  clock_bits_out(BITS_OUT, Shl8(addr, 1), 8),
                  set_gpio_lower(v, d_scl),
                  clock_bits_in(BITS_IN, 1),
                  send_immediate >>
        sp == Rep(m, set_gpio_lower(v, d_scl_sda))
              \o Rep(m, set_gpio_lower(v_scl, d_scl_sda))
              \o Rep(m, set_gpio_lower(v_scl_sda, d_scl_sda))
        idle == << set_gpio_lower(v, d) >>
        bi(idx) == << set_gpio_lower(v, d_scl_sda),
                      clock_bits_out(BITS_OUT, bytes[idx + 1], 8),
                      set_gpio_lower(v, d_scl),
                      clock_bits_in(BITS_IN, 1) >>
                   \o (IF idx = Len(bytes) - 1 THEN sp \o idle ELSE <<>>)
                   \o << send_immediate >>
    IN  << Trip(st \o sad, 1, 0) >> \o [k \in 1 .. Len(bytes) |-> Trip(bi(k - 1), 1, 0)]

write_read_fast(address, bytes, n, m, v, d) ==
    LET v_scl_sda == Or8(Or8(v, SCL), SDA)
        v_scl == Or8(v, SCL)
        d_scl_sda == Or8(Or8(SCL, SDA), d)
        d_scl == Or8(SCL, d)
        st == Rep(m, set_gpio_lower(v_scl_sda, d_scl_sda))
              \o Rep(m, set_gpio_lower(v_scl, d_scl_sda))
        sadw == << set_gpio_lower(v, d_scl_sda),
                   clock_bits_out(BITS_OUT, Shl8(address, 1), 8),
                   set_gpio_lower(v, d_scl),
                   clock_bits_in(BITS_IN, 1) >>
        oi(byte) == << set_gpio_lower(v, d_scl_sda),
                       clock_bits_out(BITS_OUT, byte, 8),
                       set_gpio_lower(v, d_scl),
                       clock_bits_in(BITS_IN, 1) >>
        sr == Rep(m, set_gpio_lower(v_scl_sda, d_scl_sda))
              \o Rep(m, set_gpio_lower(v_scl, d_scl_sda))
              \o Rep(m, set_gpio_lower(v, d_scl_sda))
        sadr == << clock_bits_out(BITS_OUT, Or8(Shl8(address, 1), 1), 8),
                   set_gpio_lower(v, d_scl),
                   clock_bits_in(BITS_IN, 1) >>
        bn(idx) == << set_gpio_lower(v, d_scl),
                      clock_bits_in(BITS_IN, 8),
                      set_gpio_lower(v, d_scl_sda),
                      clock_bits_out(BITS_OUT, IF idx = n - 1 THEN 128 ELSE 0, 1) >>
        sp == Rep(m, set_gpio_lower(v, d_scl_sda))
              \o Rep(m, set_gpio_lower(v_scl, d_scl_sda))
              \o Rep(m, set_gpio_lower(v_scl_sda, d_scl_sda))
        idle == << set_gpio_lower(v, d), send_immediate >>
    IN  << Trip(st \o sadw \o Flatten([k \in 1 .. Len(bytes) |-> oi(bytes[k])])
                \o sr \o sadr \o Flatten([k \in 1 .. n |-> bn(k - 1)]) \o sp \o idle,
                2 + Len(bytes), n) >>

write_read_slow(address, bytes, n, m, v, d) ==
    LET v_scl_sda == Or8(Or8(v, SCL), SDA)
        v_scl == Or8(v, SCL)
        d_scl_sda == Or8(Or8(SCL, SDA), d)
        d_scl == Or8(SCL, d)
        st == Rep(m, set_gpio_lower(v_scl_sda, d_scl_sda))
              \o Rep(m, set_gpio_lower(v_scl, d_scl_sda))
        sadw == << set_gpio_lower(v, d_scl_sda),
                   clock_bits_out(BITS_OUT, Shl8(address, 1), 8),
                   set_gpio_lower(v, d_scl),
                   clock_bits_in(BITS_IN, 1),
                   send_immediate >>
        oi(byte) == << set_gpio_lower(v, d_scl_sda),
                       clock_bits_out(BITS_OUT, byte, 8),
                       set_gpio_lower(v, d_scl),
                       clock_bits_in(BITS_IN, 1),
                       send_immediate >>
        sr == Rep(m, set_gpio_lower(v_scl_sda, d_scl_sda))
              \o Rep(m, set_gpio_lower(v_scl, d_scl_sda))
              \o Rep(m, set_gpio_lower(v, d_scl_sda))
        sadr == << clock_bits_out(BITS_OUT, Or8(Shl8(address, 1), 1), 8),
                   set_gpio_lower(v, d_scl),
                   clock_bits_in(BITS_IN, 1),
                   send_immediate >>
        bn(idx) == << set_gpio_lower(v, d_scl),
                      clock_bits_in(BITS_IN, 8),
                      set_gpio_lower(v, d_scl_sda),
                      clock_bits_out(BITS_OUT, IF idx = n - 1 THEN 128 ELSE 0, 1) >>
        sp == Rep(m, set_gpio_lower(v, d_scl_sda))
              \o Rep(m, set_gpio_lower(v_scl, d_scl_sda))
              \o Rep(m, set_gpio_lower(v_scl_sda, d_scl_sda))
        idle == << set_gpio_lower(v, d), send_immediate >>
    IN  << Trip(st \o sadw, 1, 0) >>
        \o [k \in 1 .. Len(bytes) |-> Trip(oi(bytes[k]), 1, 0)]
        \o << Trip(sr \o sadr, 1, 0),
              Trip(Flatten([k \in 1 .. n |-> bn(k - 1)]) \o sp \o idle, 0, n) >>

\* C38 mutant: only the last sample of ack_buf is looked at
AnyNak_LastOnly(ack_buf) == ack_buf # <<>> /\ IsNak(ack_buf[Len(ack_buf)])

\* C7 mutant: only the first sample of ack_buf is looked at
AnyNak_FirstOnly(ack_buf) == ack_buf # <<>> /\ IsNak(ack_buf[1])

\* the loop over ack_buf (one sample in slow mode, all of them in fast mode)
AnyNak(ack_buf) == \E k \in 1 .. Len(ack_buf) : IsNak(ack_buf[k])

\* C6 mutant: a NAK is noted but the call goes on
EarlyReturn_ErrorOnly(result) == result = "Err"

\* `?` on a transport error, `return Err(NoAcknowledge)` on a NAK
EarlyReturn(result) == result # "Ok"

\* what a call has done so far: transport calls, unread responses, samples read
Acc(io, q, ackn, datan, acks, buf, result) ==
    [io |-> io, rxq |-> q, ackn |-> ackn, datan |-> datan, acks |-> acks,
     buf |-> buf, result |-> result]

\* write_all(batch); read_all(ack_buf); read_all(buffer); then the ACK check, which
\* returns NoAcknowledge at once.  A read_all that finds fewer bytes than it asks
\* for ends in the transport's timeout error.
RECURSIVE RunTrips(_, _, _, _)
RunTrips(trips, i, sl, acc) ==
    IF i > Len(trips) THEN acc
    ELSE LET t == trips[i]
             q0 == acc.rxq \o ChipExec(t.cmds, 1, sl, acc.ackn, acc.datan)
             na == Min(t.nack, Len(q0))
             ack_buf == SubSeq(q0, 1, na)
             q1 == SubSeq(q0, na + 1, Len(q0))
             nd == IF na = t.nack THEN Min(t.ndata, Len(q1)) ELSE 0
             data == SubSeq(q1, 1, nd)
             q2 == SubSeq(q1, nd + 1, Len(q1))
             io1 == acc.io \o << SendEv(t.cmds) >>
                    \o (IF t.nack > 0 THEN << RecvEv(t.nack, ack_buf) >> ELSE <<>>)
                    \o (IF t.ndata > 0 /\ na = t.nack THEN << RecvEv(t.ndata, data) >> ELSE <<>>)
             starved == na < t.nack \/ nd < t.ndata
             acc1 == Acc(io1, q2,
                         acc.ackn + CountOp(t.cmds, "clock_bits_in", 1),
                         acc.datan + CountOp(t.cmds, "clock_bits_in", 8),
                         acc.acks \o ack_buf,
                         IF t.ndata > 0 /\ ~starved THEN data ELSE acc.buf,
                         IF starved THEN "Err" ELSE IF AnyNak(ack_buf) THEN "Nak" ELSE "Ok")
             ackn1 == acc.ackn + CountOp(t.cmds, "clock_bits_in", 1)
             datan1 == acc.datan + CountOp(t.cmds, "clock_bits_in", 8)
         IN  IF Fails(acc.io, 1)
             THEN [acc EXCEPT !.io = @ \o << Failed(SendEv(t.cmds)) >>, !.result = "Err"]
             ELSE IF t.nack > 0 /\ Fails(acc.io, 2)
             THEN Acc(acc.io \o << SendEv(t.cmds), Failed(RecvEv(t.nack, <<>>)) >>, q0,
                      ackn1, datan1, acc.acks, acc.buf, "Err")
             ELSE IF t.ndata > 0 /\ na = t.nack /\ Fails(acc.io, IF t.nack > 0 THEN 3 ELSE 2)
             THEN Acc(acc.io \o << SendEv(t.cmds) >>
                         \o (IF t.nack > 0 THEN << RecvEv(t.nack, ack_buf) >> ELSE <<>>)
                         \o << Failed(RecvEv(t.ndata, <<>>)) >>,
                      q1, ackn1, datan1, acc.acks \o ack_buf, acc.buf, "Err")
             ELSE IF EarlyReturn(acc1.result) THEN acc1 ELSE RunTrips(trips, i + 1, sl, acc1)

(***************************************************************************)
(* SPI: the bus operations of Spi and of SpiDeviceBus, and the transaction *)
(* of SpiDevice.  MISO is wired to MOSI, so the chip answers every         *)
(* clock_data with the bytes it was given.                                 *)
(***************************************************************************)
Polarity(pol) ==
    IF pol = "IdleHigh" THEN [clk |-> "MsbNegIn", clk_out |-> "MsbPos"]
                        ELSE [clk |-> "MsbPosIn", clk_out |-> "MsbNeg"]

\* a call on the bus: words is the slice written (for read, what the buffer
\* held before the call), n the length of the slice read into
BusOp(op, words, n) == [op |-> op, words |-> words, n |-> n]

\* the transport fills buf from the unread responses; with fewer than it
\* asks for it takes what is there and fails with the timeout error
Recv(q, buf) ==
    LET n == Len(buf)
        k == Min(n, Len(q))
    IN  [got |-> SubSeq(q, 1, k),
         buf |-> SubSeq(q, 1, k) \o SubSeq(buf, k + 1, n),
         rxq |-> SubSeq(q, k + 1, Len(q)),
         result |-> IF k < n THEN "Err" ELSE "Ok"]

\* C20 mutant: the result of send is dropped
SendOnly_Swallow(acc, cmd) ==
    IF Fails(acc.io, 1)
    THEN [acc EXCEPT !.io = @ \o << Failed(SendEv(cmd)) >>]
    ELSE [acc EXCEPT !.io = @ \o << SendEv(cmd) >>,
                     !.rxq = @ \o ChipExec(cmd, 1, {}, 0, 0)]

\* send(cmd) alone
SendOnly(acc, cmd) ==
    IF Fails(acc.io, 1)
    THEN [acc EXCEPT !.io = @ \o << Failed(SendEv(cmd)) >>, !.result = "Err"]
    ELSE [acc EXCEPT !.io = @ \o << SendEv(cmd) >>,
                     !.rxq = @ \o ChipExec(cmd, 1, {}, 0, 0)]

\* send(cmd)?; recv(buf)?
SendRecv(acc, cmd, buf) ==
    LET rc == Recv(acc.rxq \o ChipExec(cmd, 1, {}, 0, 0), buf)
    IN  IF Fails(acc.io, 1)
        THEN [acc EXCEPT !.io = @ \o << Failed(SendEv(cmd)) >>, !.result = "Err"]
        ELSE IF Fails(acc.io, 2)
        THEN [acc EXCEPT !.io = @ \o << SendEv(cmd), Failed(RecvEv(Len(buf), <<>>)) >>,
                         !.rxq = @ \o ChipExec(cmd, 1, {}, 0, 0),
                         !.result = "Err"]
        ELSE [acc EXCEPT !.io = @ \o << SendEv(cmd), RecvEv(Len(buf), rc.got) >>,
                         !.rxq = rc.rxq,
                         !.buf = rc.buf,
                         !.result = rc.result]

Spi_write(acc, pol, words) ==
    SendOnly(acc, << clock_data_out(pol.clk_out, words), send_immediate >>)

Spi_read(acc, pol, words) ==
    LET data_out == Zeros(Len(words))
    IN  SendRecv(acc, << clock_data(pol.clk, data_out), send_immediate >>, words)

Spi_transfer_in_place(acc, pol, words) ==
    SendRecv(acc, << clock_data(pol.clk, words), send_immediate >>, words)

Spi_transfer(acc, pol, read, write) ==
    SendRecv(acc, << clock_data(pol.clk, write), send_immediate >>, read)

SpiDeviceBus_read(acc, pol, words) ==
    SendRecv(acc, << clock_data(pol.clk, words), send_immediate >>, words)

SpiDeviceBus_write(acc, pol, words) ==
    SendOnly(acc, << clock_data_out(pol.clk_out, words), send_immediate >>)

SpiDeviceBus_transfer(acc, pol, read, write) ==
    SendRecv(acc, << clock_data(pol.clk, write), send_immediate >>, read)

SpiDeviceBus_transfer_in_place(acc, pol, words) ==
    SendRecv(acc, << clock_data(pol.clk, words), send_immediate >>, words)

Spi_call(acc, pol, o) ==
    CASE o.op = "write" -> Spi_write(acc, pol, o.words)
      [] o.op = "read" -> Spi_read(acc, pol, o.words)
      [] o.op = "transfer_in_place" -> Spi_transfer_in_place(acc, pol, o.words)
      [] o.op = "transfer" -> Spi_transfer(acc, pol, Zeros(o.n), o.words)

SpiDeviceBus_call(acc, pol, o) ==
    CASE o.op = "write" -> SpiDeviceBus_write(acc, pol, o.words)
      [] o.op = "read" -> SpiDeviceBus_read(acc, pol, o.words)
      [] o.op = "transfer_in_place" -> SpiDeviceBus_transfer_in_place(acc, pol, o.words)
      [] o.op = "transfer" -> SpiDeviceBus_transfer(acc, pol, Zeros(o.n), o.words)

\* the closure handed to transaction: bus calls in order, each followed by `?`
RECURSIVE RunClosure(_, _, _, _)
RunClosure(f, i, pol, acc) ==
    IF i > Len(f) \/ acc.result # "Ok" THEN acc
    ELSE RunClosure(f, i + 1, pol, SpiDeviceBus_call(acc, pol, f[i]))

cs_mask(cs_idx) == Shl8(1, cs_idx)

\* C13 mutant: the closure's result is propagated with `?` before the deassert
SpiDevice_transaction_EarlyReturn(acc, pol, cs_idx, v, d, f) ==
    LET value_cs_asserted == And8(v, Not8(cs_mask(cs_idx)))
        value_cs_deasserted == Or8(v, cs_mask(cs_idx))
        a1 == SendOnly(acc, << set_gpio_lower(value_cs_asserted, d), send_immediate >>)
        bus_result == RunClosure(f, 1, pol, a1)
    IN  IF bus_result.result # "Ok" THEN bus_result
        ELSE SendOnly(bus_result, << set_gpio_lower(value_cs_deasserted, d), send_immediate >>)

SpiDevice_transaction(acc, pol, cs_idx, v, d, f) ==
    LET value_cs_asserted == And8(v, Not8(cs_mask(cs_idx)))
        value_cs_deasserted == Or8(v, cs_mask(cs_idx))
        a1 == SendOnly(acc, << set_gpio_lower(value_cs_asserted, d), send_immediate >>)
        bus_result == RunClosure(f, 1, pol, a1)
    IN  IF a1.result # "Ok" THEN a1
        ELSE SendOnly(bus_result, << set_gpio_lower(value_cs_deasserted, d), send_immediate >>)

(***************************************************************************)
(* Input sampling on the MPSSE engine.                                     *)
(***************************************************************************)
\* what a u8 can hold: the levels of the eight pins of a bank
U8 == 0 .. 255

InputPin_mask(idx) == Shl8(1, idx)

\* send(gpio_lower, send_immediate)?; recv(&mut buffer)?  The chip answers the
\* read-pins command with the bank sample s, behind whatever is still unread
InputPin_get(acc, idx, s) ==
    LET cmd == << gpio_lower, send_immediate >>
        rc == Recv(acc.rxq \o << s >>, << 0 >>)
    IN  IF Fails(acc.io, 1)
        THEN [acc EXCEPT !.io = @ \o << Failed(SendEv(cmd)) >>, !.result = "Err"]
        ELSE IF Fails(acc.io, 2)
        THEN [acc EXCEPT !.io = @ \o << SendEv(cmd), Failed(RecvEv(1, <<>>)) >>,
                         !.rxq = @ \o << s >>,
                         !.result = "Err"]
        ELSE [acc EXCEPT !.io = @ \o << SendEv(cmd), RecvEv(1, rc.got) >>,
                         !.rxq = rc.rxq,
                         !.buf = rc.buf,
                         !.result = rc.result]

\* Ok((buffer[0] & self.mask()) != 0)
InputPin_get_value(buffer, idx) == And8(buffer[1], InputPin_mask(idx)) # 0

InputPin_is_high(buffer, idx) == InputPin_get_value(buffer, idx)

\* self.get().map(|res| !res)
InputPin_is_low(buffer, idx) == ~InputPin_get_value(buffer, idx)

(***************************************************************************)
(* Handles and the record of the last operation.                           *)
(***************************************************************************)
Handle(kind, idx) ==
    [kind |-> kind, idx |-> idx, fast |-> FALSE, margin |-> DefaultStartStopCmds,
     pol |-> "IdleLow"]

\* self.pol = cpol.into(): the handle's field and nothing else
Spi_set_clock_polarity(h, cpol) == [h EXCEPT !.pol = cpol]

LastRec(op, idx, addr, wr, rdlen, fast, margin, result, io, acks, buf) ==
    [op |-> op, idx |-> idx, addr |-> addr, wr |-> wr, rdlen |-> rdlen, fast |-> fast,
     margin |-> margin, result |-> result, io |-> io, acks |-> acks, buf |-> buf,
     closure |-> <<>>, ret |-> FALSE, bank |-> "Lower", sample |-> 0]

NoOp == LastRec("none", 0, 0, <<>>, 0, FALSE, 0, "Ok", <<>>, <<>>, <<>>)

RegLast(op, idx, r) == LastRec(op, idx, 0, <<>>, 0, FALSE, 0, r.result, r.io, <<>>, <<>>)

Store(r) ==
    /\ pins' = r.inner.pins
    /\ direction' = r.inner.direction
    /\ value' = r.inner.value
    /\ poisoned' = (poisoned \/ r.result = "Panic")

\* C19 mutant: a hal can be had without init
HasSession_Always(s, engine) == TRUE

\* the acquisition methods take &self of the FtHal / FtHalSbb that init returned
HasSession(s, engine) == s = engine

Acquire(op, kind, idx, r) ==
    \E o \in {r} :
        /\ HasSession(session, "mpsse")
        /\ nacq' = nacq + 1
        /\ Store(o)
        /\ handles' = IF o.result = "Ok" THEN handles \cup {Handle(kind, idx)} ELSE handles
        /\ last' = RegLast(op, idx, o)
        /\ UNCHANGED <<slave, rxq>>
        /\ UNCHANGED <<sessVars, fault, sbbVars, concVars>>

(***************************************************************************)
(* Actions: acquisitions, GPIO output, handle drop.                        *)
(***************************************************************************)
OutputPinNew(idx) ==
    /\ nacq < MaxAcq
    /\ Acquire("OutputPin::new", "Output", idx,
               IF poisoned THEN LockPanic(Inner) ELSE OutputPin_new(Inner, idx))

InputPinNew(idx) ==
    /\ nacq < MaxAcq
    /\ Acquire("InputPin::new", "Input", idx,
               IF poisoned THEN LockPanic(Inner) ELSE InputPin_new(Inner, idx))

SpiNew ==
    /\ nacq < MaxAcq
    /\ Acquire("Spi::new", "Spi", 0,
               IF poisoned THEN LockPanic(Inner) ELSE Spi_new(Inner))

SpiDeviceNew(cs_idx) ==
    /\ nacq < MaxAcq
    /\ Acquire("SpiDevice::new", "SpiDevice", cs_idx,
               IF poisoned THEN LockPanic(Inner) ELSE SpiDevice_new(Inner, cs_idx))

I2cNew ==
    /\ nacq < MaxAcq
    /\ Acquire("I2c::new", "I2c", 0,
               IF poisoned THEN LockPanic(Inner) ELSE I2c_new(Inner))

OutputPinSet(state) ==
    \E h \in handles :
        /\ h.kind = "Output"
        /\ LET r == IF poisoned THEN LockPanic(Inner) ELSE OutputPin_set(Inner, h.idx, state)
           IN  /\ Store(r)
               /\ last' = RegLast("OutputPin::set", h.idx, r)
        /\ UNCHANGED <<handles, slave, rxq, nacq>>
        /\ UNCHANGED <<sessVars, fault, sbbVars, concVars>>

\* no handle type implements Drop: the handle goes, the session keeps its state
DropHandle ==
    \E h \in handles :
        /\ handles' = handles \ {h}
        /\ last' = LastRec("drop", h.idx, 0, <<>>, 0, FALSE, 0, "Ok", <<>>, <<>>, <<>>)
        /\ UNCHANGED <<pins, direction, value, poisoned, slave, rxq, nacq>>
        /\ UNCHANGED <<sessVars, fault, sbbVars, concVars>>

(***************************************************************************)
(* Actions: I2C configuration and transactions.                            *)
(***************************************************************************)
\* 7-bit addresses and one u8 above them
Addresses == {80, 211}

\* the payload of length n
Pattern == <<222, 173, 190, 239>>
Payload(n) == [i \in 1 .. n |-> Pattern[((i - 1) % 4) + 1]]
Payloads == {Payload(n) : n \in 0 .. MaxLen}

SetFast(fast) ==
    \E h \in handles :
        /\ h.kind = "I2c"
        /\ handles' = (handles \ {h}) \cup {[h EXCEPT !.fast = fast]}
        /\ last' = LastRec("I2c::set_fast", 0, 0, <<>>, 0, fast, h.margin, "Ok", <<>>, <<>>, <<>>)
        /\ UNCHANGED <<pins, direction, value, poisoned, slave, rxq, nacq>>
        /\ UNCHANGED <<sessVars, fault, sbbVars, concVars>>

SetStopStartLen(start_stop_cmds) ==
    \E h \in handles :
        /\ h.kind = "I2c"
        /\ handles' = (handles \ {h}) \cup {[h EXCEPT !.margin = start_stop_cmds]}
        /\ last' = LastRec("I2c::set_stop_start_len", 0, 0, <<>>, 0, h.fast, start_stop_cmds,
                           "Ok", <<>>, <<>>, <<>>)
        /\ UNCHANGED <<pins, direction, value, poisoned, slave, rxq, nacq>>
        /\ UNCHANGED <<sessVars, fault, sbbVars, concVars>>

\* an I2C call: the assert on empty slices comes before the lock is taken
I2cCall(op, h, address, bytes, n, empty, trips) ==
    \E r \in { LET start == Acc(<<>>, rxq, 0, 0, <<>>, Zeros(n), "Ok")
                IN  IF empty \/ poisoned
                    THEN [start EXCEPT !.result = "Panic"]
                    ELSE RunTrips(trips, 1, slave, start) } :
        /\ rxq' = r.rxq
        /\ last' = LastRec(op, 0, address, bytes, n, h.fast, h.margin, r.result, r.io,
                           r.acks, r.buf)
        /\ UNCHANGED <<pins, direction, value, poisoned, handles, slave, nacq>>
        /\ UNCHANGED <<sessVars, fault, sbbVars, concVars>>

I2cRead(address, n) ==
    \E h \in handles :
        /\ h.kind = "I2c"
        /\ I2cCall("read", h, address, <<>>, n, n = 0,
                   IF h.fast THEN read_fast(address, n, h.margin, value, direction)
                             ELSE read_slow(address, n, h.margin, value, direction))

I2cWrite(addr, bytes) ==
    \E h \in handles :
        /\ h.kind = "I2c"
        /\ I2cCall("write", h, addr, bytes, 0, bytes = <<>>,
                   IF h.fast THEN write_fast(addr, bytes, h.margin, value, direction)
                             ELSE write_slow(addr, bytes, h.margin, value, direction))

I2cWriteRead(address, bytes, n) ==
    \E h \in handles :
        /\ h.kind = "I2c"
        /\ I2cCall("write_read", h, address, bytes, n, bytes = <<>> \/ n = 0,
                   IF h.fast THEN write_read_fast(address, bytes, n, h.margin, value, direction)
                             ELSE write_read_slow(address, bytes, n, h.margin, value, direction))

(***************************************************************************)
(* Actions: SPI bus calls and device transactions.                         *)
(***************************************************************************)
BusOps ==
    {BusOp("write", b, 0) : b \in Payloads}
    \cup {BusOp("read", b, Len(b)) : b \in Payloads \cup {Zeros(n) : n \in 0 .. MaxLen}}
    \cup {BusOp("transfer_in_place", b, Len(b)) : b \in Payloads}
    \cup {BusOp("transfer", b, n) : b \in Payloads, n \in 0 .. MaxLen}

\* closures: nothing, one bus call, or a command byte followed by a read or transfer
Closures ==
    {<<>>} \cup {<< o >> : o \in BusOps}
    \cup {<< BusOp("write", Payload(1), 0), o >> :
             o \in {x \in BusOps : x.op \in {"read", "transfer"}}}

SpiLast(op, h, o, f, r) ==
    [LastRec(op, h.idx, 0, o.words, o.n, FALSE, 0, r.result, r.io, <<>>, r.buf)
        EXCEPT !.closure = f]

SpiBusCall(o) ==
    \E h \in handles :
        /\ h.kind = "Spi"
        /\ \E r \in { LET start == Acc(<<>>, rxq, 0, 0, <<>>,
                                       IF o.op = "transfer" THEN Zeros(o.n) ELSE o.words, "Ok")
                      IN  IF poisoned THEN [start EXCEPT !.result = "Panic"]
                          ELSE Spi_call(start, Polarity(h.pol), o) } :
               /\ Len(r.rxq) <= MaxPending
               /\ rxq' = r.rxq
               /\ last' = SpiLast("Spi::" \o o.op, h, o, <<>>, r)
        /\ UNCHANGED <<pins, direction, value, poisoned, handles, slave, nacq>>
        /\ UNCHANGED <<sessVars, fault, sbbVars, concVars>>

SpiDeviceTransaction(f) ==
    \E h \in handles :
        /\ h.kind = "SpiDevice"
        /\ \E r \in { LET start == Acc(<<>>, rxq, 0, 0, <<>>, <<>>, "Ok")
                      IN  IF poisoned THEN [start EXCEPT !.result = "Panic"]
                          ELSE SpiDevice_transaction(start, Polarity(h.pol), h.idx,
                                                     value, direction, f) } :
               /\ Len(r.rxq) <= MaxPending
               /\ rxq' = r.rxq
               /\ last' = SpiLast("SpiDevice::transaction", h, BusOp("none", <<>>, 0), f, r)
        /\ UNCHANGED <<pins, direction, value, poisoned, handles, slave, nacq>>
        /\ UNCHANGED <<sessVars, fault, sbbVars, concVars>>

\* Spi::set_clock_polarity and SpiDevice::set_clock_polarity take &mut self only
SetClockPolarity(cpol) ==
    \E h \in handles :
        /\ h.kind \in {"Spi", "SpiDevice"}
        /\ handles' = (handles \ {h}) \cup {Spi_set_clock_polarity(h, cpol)}
        /\ last' = LastRec("set_clock_polarity", h.idx, 0, <<>>, 0, FALSE, 0, "Ok",
                           <<>>, <<>>, <<>>)
        /\ UNCHANGED <<pins, direction, value, poisoned, slave, rxq, nacq>>
        /\ UNCHANGED <<sessVars, fault, sbbVars, concVars>>

(***************************************************************************)
(* Actions: input sampling.                                                *)
(***************************************************************************)
InputPinCall(op, h, s) ==
    \E r \in { LET start == Acc(<<>>, rxq, 0, 0, <<>>, << 0 >>, "Ok")
                IN  IF poisoned THEN [start EXCEPT !.result = "Panic"]
                    ELSE InputPin_get(start, h.idx, s) } :
        /\ rxq' = r.rxq
        /\ last' = [LastRec(op, h.idx, 0, <<>>, 1, FALSE, 0, r.result, r.io, <<>>, r.buf)
                      EXCEPT !.sample = s,
                             !.ret = /\ r.result = "Ok"
                                     /\ IF op = "InputPin::is_low"
                                        THEN InputPin_is_low(r.buf, h.idx)
                                        ELSE IF op = "InputPin::is_high"
                                        THEN InputPin_is_high(r.buf, h.idx)
                                        ELSE InputPin_get_value(r.buf, h.idx)]
        /\ UNCHANGED <<pins, direction, value, poisoned, handles, slave, nacq>>
        /\ UNCHANGED <<sessVars, fault, sbbVars, concVars>>

InputPinGet(s) ==
    \E h \in handles :
        /\ h.kind = "Input"
        /\ InputPinCall("InputPin::get", h, s)

InputPinIsHigh(s) ==
    \E h \in handles :
        /\ h.kind = "Input"
        /\ InputPinCall("InputPin::is_high", h, s)

InputPinIsLow(s) ==
    \E h \in handles :
        /\ h.kind = "Input"
        /\ InputPinCall("InputPin::is_low", h, s)

(***************************************************************************)
(* The synchronous bit-bang engine: FtInnerSbb, its pins, the chip.        *)
(***************************************************************************)
MaxWrites == 3
MaxStray == 1

\* the mutex is free
NoThread == 0

\* GpioByte { direction: 0, value: 0, pins: [None; 8] }
GpioByte == [pins |-> [i \in PinIdx |-> None], direction |-> 0, value |-> 0]

Lower(idx) == [bank |-> "Lower", idx |-> idx]
Upper(idx) == [bank |-> "Upper", idx |-> idx]

InnerSbb ==
    [lower |-> [pins |-> pins, direction |-> direction, value |-> value],
     upper |-> upper, panicked |-> FALSE]

allocate_pin_any(inner, pin, purpose) ==
    LET byte == IF pin.bank = "Lower" THEN inner.lower ELSE inner.upper
    IN  IF pin.idx \notin PinIdx
        THEN [inner EXCEPT !.panicked = TRUE]
        ELSE IF byte.pins[pin.idx] # None
             THEN [inner EXCEPT !.panicked = TRUE]
             ELSE IF pin.bank = "Lower"
                  THEN [inner EXCEPT !.lower.pins[pin.idx] = purpose]
                  ELSE [inner EXCEPT !.upper.pins[pin.idx] = purpose]

SetBitmodeEv(mask) ==
    [ev |-> "set_bitmode", cmds |-> <<>>, n |-> mask, bytes |-> <<>>, err |-> FALSE]
WriteAllEv(bytes) ==
    [ev |-> "write_all", cmds |-> <<>>, n |-> Len(bytes), bytes |-> bytes, err |-> FALSE]
ReadToEndEv(bytes) ==
    [ev |-> "read_to_end", cmds |-> <<>>, n |-> Len(bytes), bytes |-> bytes, err |-> FALSE]
InitEv(call) == [ev |-> call, cmds |-> <<>>, n |-> 0, bytes |-> <<>>, err |-> FALSE]

\* "Pins start at 0xFF"
PowerUp == 255

\* what the chip samples on its pins: an output pin shows the latched bit; AD1
\* is wired to AD0 and follows it while AD0 is driven; any other input idles
Levels(l, d) ==
    LET b(i) == IF Bit(d, i) = 1 THEN Bit(l, i)
                ELSE IF i = 1 /\ Bit(d, 0) = 1 THEN Bit(l, 0)
                ELSE Bit(PowerUp, i)
    IN  b(0) + 2 * b(1) + 4 * b(2) + 8 * b(3) + 16 * b(4) + 32 * b(5) + 64 * b(6) + 128 * b(7)

\* the chip reads its pins into the TX FIFO first and drives the byte after
ChipWrite(q, l, d, byte) == [rxq |-> Append(q, Levels(l, d)), latch |-> byte]

OutcomeSbb(inner, io, result, q, l, ret) ==
    [inner |-> inner, io |-> io, result |-> result, rxq |-> q, latch |-> l, ret |-> ret]

\* C17 mutant: the upper bank is configured like the lower one
OutputPinSbb_new_UpperConfigured(inner, pin) ==
    LET a == allocate_pin_any(inner, pin, "Output")
    IN  IF a.panicked
        THEN Outcome(a, <<>>, "Panic")
        ELSE IF pin.bank = "Lower"
             THEN LET st == [a EXCEPT !.lower.direction = Or8(@, Shl8(1, pin.idx))]
                  IN  Outcome(st, << SetBitmodeEv(st.lower.direction) >>, "Ok")
             ELSE LET st == [a EXCEPT !.upper.direction = Or8(@, Shl8(1, pin.idx))]
                  IN  Outcome(st, << SetBitmodeEv(st.upper.direction) >>, "Ok")

OutputPinSbb_new(inner, pin) ==
    LET a == allocate_pin_any(inner, pin, "Output")
    IN  IF a.panicked
        THEN Outcome(a, <<>>, "Panic")
        ELSE IF pin.bank = "Lower"
             THEN LET st == [a EXCEPT !.lower.direction = Or8(@, Shl8(1, pin.idx))]
                  IN  Outcome(st, << SetBitmodeEv(st.lower.direction) >>, "Ok")
             ELSE LET st == [a EXCEPT !.upper.direction = Or8(@, Shl8(1, pin.idx)),
                                      !.panicked = TRUE]
                  IN  Outcome(st, <<>>, "Panic")

InputPinSbb_new(inner, pin) ==
    LET a == allocate_pin_any(inner, pin, "Input")
    IN  IF a.panicked
        THEN Outcome(a, <<>>, "Panic")
        ELSE IF pin.bank = "Lower"
             THEN LET st == [a EXCEPT !.lower.direction = And8(@, Not8(Shl8(1, pin.idx)))]
                  IN  Outcome(st, << SetBitmodeEv(st.lower.direction) >>, "Ok")
             ELSE LET st == [a EXCEPT !.upper.direction = And8(@, Not8(Shl8(1, pin.idx))),
                                      !.panicked = TRUE]
                  IN  Outcome(st, <<>>, "Panic")

\* C16 mutant: set writes without reading the chip's buffer out first
OutputPinSbb_set_NoDrain(inner, pin, state, q, l) ==
    LET mask == Shl8(1, pin.idx)
        byte == IF pin.bank = "Lower" THEN inner.lower ELSE inner.upper
        v == IF state THEN Or8(byte.value, mask) ELSE And8(byte.value, Not8(mask))
        st == IF pin.bank = "Lower" THEN [inner EXCEPT !.lower.value = v]
                                     ELSE [inner EXCEPT !.upper.value = v]
        w == ChipWrite(q, l, inner.lower.direction, v)
    IN  OutcomeSbb(st, << WriteAllEv(<< v >>) >>, "Ok", w.rxq, w.latch, FALSE)

OutputPinSbb_set(inner, pin, state, q, l) ==
    LET mask == Shl8(1, pin.idx)
        byte == IF pin.bank = "Lower" THEN inner.lower ELSE inner.upper
        v == IF state THEN Or8(byte.value, mask) ELSE And8(byte.value, Not8(mask))
        st == IF pin.bank = "Lower" THEN [inner EXCEPT !.lower.value = v]
                                     ELSE [inner EXCEPT !.upper.value = v]
        out_buf == << v >>
        read_bytes == q
        w == ChipWrite(<<>>, l, inner.lower.direction, v)
    IN  OutcomeSbb(st, << ReadToEndEv(read_bytes), WriteAllEv(out_buf) >>, "Ok",
                   w.rxq, w.latch, FALSE)

\* C15 mutant: get takes the oldest byte of the buffer for the pin states
InputPinSbb_get_FirstByte(inner, pin, q, l) ==
    LET byte == IF pin.bank = "Lower" THEN inner.lower ELSE inner.upper
        out_buf == << byte.value >>
        w == ChipWrite(q, l, inner.lower.direction, byte.value)
        read_bytes == w.rxq
        pin_states == read_bytes[1]
    IN  OutcomeSbb(inner,
                   << WriteAllEv(out_buf), ReadToEndEv(read_bytes) >>, "Ok",
                   <<>>, w.latch, And8(pin_states, Shl8(1, pin.idx)) # 0)

InputPinSbb_get(inner, pin, q, l) ==
    LET byte == IF pin.bank = "Lower" THEN inner.lower ELSE inner.upper
        out_buf == << byte.value >>
        w == ChipWrite(q, l, inner.lower.direction, byte.value)
        read_bytes == w.rxq
        pin_states == read_bytes[Len(read_bytes)]
    IN  OutcomeSbb(inner,
                   << WriteAllEv(out_buf), ReadToEndEv(read_bytes) >>, "Ok",
                   <<>>, w.latch, And8(pin_states, Shl8(1, pin.idx)) # 0)

(***************************************************************************)
(* Actions of the bit-bang engine.                                         *)
(***************************************************************************)
HandleSbb(kind, pin) == [kind |-> kind, idx |-> pin.idx, bank |-> pin.bank]

PinOf(h) == [bank |-> h.bank, idx |-> h.idx]

StoreSbb(r) ==
    /\ pins' = r.inner.lower.pins
    /\ direction' = r.inner.lower.direction
    /\ value' = r.inner.lower.value
    /\ upper' = r.inner.upper
    /\ poisoned' = (poisoned \/ r.result = "Panic")

\* the bytes a call wrote to the chip, tagged with the call
Written(by, io) ==
    LET ws == SelectSeq(io, LAMBDA e : e.ev = "write_all")
    IN  [k \in 1 .. Len(ws) |-> [by |-> by, byte |-> ws[k].bytes[1]]]

AcquireSbb(op, kind, pin, r) ==
    \E o \in {r} :
        /\ HasSession(session, "sbb")
        /\ nacq' = nacq + 1
        /\ StoreSbb(o)
        /\ handles' = IF o.result = "Ok" THEN handles \cup {HandleSbb(kind, pin)} ELSE handles
        /\ last' = [RegLast(op, pin.idx, o) EXCEPT !.bank = pin.bank]
        /\ UNCHANGED <<slave, rxq, latch, wlog, sessVars, fault, concVars>>

OutputPinSbbNew(pin) ==
    /\ nacq < MaxAcq
    /\ AcquireSbb("OutputPinSbb::new", "OutputSbb", pin,
                  IF poisoned THEN LockPanic(InnerSbb) ELSE OutputPinSbb_new(InnerSbb, pin))

InputPinSbbNew(pin) ==
    /\ nacq < MaxAcq
    /\ AcquireSbb("InputPinSbb::new", "InputSbb", pin,
                  IF poisoned THEN LockPanic(InnerSbb) ELSE InputPinSbb_new(InnerSbb, pin))

CallSbb(op, by, h, r) ==
    \E o \in {r} :
        /\ Len(wlog) < MaxWrites
        /\ StoreSbb(o)
        /\ rxq' = o.rxq
        /\ latch' = o.latch
        /\ wlog' = wlog \o Written(by, o.io)
        /\ last' = [RegLast(op, h.idx, o) EXCEPT !.bank = h.bank, !.ret = o.ret]
        /\ UNCHANGED <<handles, slave, nacq, sessVars, fault, concVars>>

OutputPinSbbSet(state) ==
    \E h \in handles :
        /\ h.kind = "OutputSbb"
        /\ CallSbb("OutputPinSbb::set", "set", h,
                   IF poisoned THEN OutcomeSbb(InnerSbb, <<>>, "Panic", rxq, latch, FALSE)
                   ELSE OutputPinSbb_set(InnerSbb, PinOf(h), state, rxq, latch))

InputPinSbbGet ==
    \E h \in handles :
        /\ h.kind = "InputSbb"
        /\ CallSbb("InputPinSbb::get", "get", h,
                   IF poisoned THEN OutcomeSbb(InnerSbb, <<>>, "Panic", rxq, latch, FALSE)
                   ELSE InputPinSbb_get(InnerSbb, PinOf(h), rxq, latch))

(***************************************************************************)
(* init: the one way to a session.                                         *)
(***************************************************************************)
InitCallsSbb ==
    << InitEv("usb_reset"), InitEv("usb_purge_buffers"), InitEv("set_latency_timer"),
       InitEv("set_baud_rate"), SetBitmodeEv(GpioByte.direction), ReadToEndEv(<<>>) >>

InitCalls == << InitEv("init") >>

\* the calls of init in order, each followed by `?`; fail is the call that
\* returns an error (0: none); read_to_end at the end takes the stray bytes
RunInit(calls, fail, q) ==
    LET n == IF fail = 0 THEN Len(calls) ELSE fail
        done == fail = 0
    IN  [io |-> [k \in 1 .. n |-> IF k = fail THEN Failed(calls[k])
                                  ELSE IF calls[k].ev = "read_to_end" THEN ReadToEndEv(q)
                                  ELSE calls[k]],
         result |-> IF done THEN "Ok" ELSE "Err",
         rxq |-> IF done /\ calls[Len(calls)].ev = "read_to_end" THEN <<>> ELSE q]

InitCall(op, engine, r) ==
    /\ ninit' = ninit + 1
    /\ session' = IF r.result = "Ok" THEN engine ELSE "failed"
    /\ rxq' = r.rxq
    /\ last' = LastRec(op, 0, 0, <<>>, 0, FALSE, 0, r.result, r.io, <<>>, <<>>)
    /\ UNCHANGED <<pins, direction, value, poisoned, handles, slave, nacq, fault,
                   sbbVars, concVars>>

\* init takes the device by value: there is one call per opened device
FtHalInit(fail) ==
    /\ session = "closed"
    /\ InitCall("FtHal::init", "mpsse", RunInit(InitCalls, fail, rxq))

FtHalSbbInit(fail) ==
    /\ session = "closed"
    /\ InitCall("FtHalSbb::init", "sbb", RunInit(InitCallsSbb, fail, rxq))

(***************************************************************************)
(* Callers on threads: a call waits for the session mutex, makes its       *)
(* transport calls one by one under the guard, and drops the guard.        *)
(***************************************************************************)
Threads == {1, 2}

NoHandle == Handle("none", 0)

Req(op, idx, h, state, f, addr, bytes) ==
    [op |-> op, idx |-> idx, h |-> h, state |-> state, f |-> f, addr |-> addr,
     bytes |-> bytes]

NoReq == Req("none", 0, NoHandle, FALSE, <<>>, 0, <<>>)

\* where a caller is: idle, waiting in mtx.lock(), in a critical section with k
\* of the transport calls io made, or out of it between two guards
PcRec(at, req, io, k, ends, seg, ret, hs) ==
    [at |-> at, req |-> req, io |-> io, k |-> k, ends |-> ends, seg |-> seg,
     ret |-> ret, hs |-> hs]

Idle == PcRec("idle", NoReq, <<>>, 0, <<>>, 0, NoOp, {})

\* C12 mutant: the guard is dropped after the first send and taken again
Critical_FirstSendAlone(io) == IF Len(io) >= 2 THEN << 1, Len(io) >> ELSE << Len(io) >>

\* C14 mutant: every transport call takes the lock for itself
Critical_PerCall(io) == IF io = <<>> THEN << 0 >> ELSE [i \in 1 .. Len(io) |-> i]

\* the transport calls each MutexGuard of an operation covers, by the index of
\* the last one: `let mut lock = self.mtx.lock()` at the top, dropped at return
Critical(io) == << Len(io) >>

\* lock.ft.send(cmd.as_slice())? of an acquisition or a GPIO write: what was
\* written to the state before the send stays written
Transport(o) ==
    IF o.io # <<>> /\ Fails(<<>>, 1)
    THEN [o EXCEPT !.io = << Failed(o.io[1]) >>, !.result = "Err"]
    ELSE o

Done(inner, io, result, q, ret, hs) ==
    [inner |-> inner, io |-> io, result |-> result, rxq |-> q, ret |-> ret, hs |-> hs]

AcqDone(q, kind, o) ==
    Done(o.inner, o.io, o.result, rxq, RegLast(q.op, q.idx, o),
         IF o.result = "Ok" THEN {Handle(kind, q.idx)} ELSE {})

\* the body of a call, run on the state it finds when it has the lock
Eval(q) ==
    CASE q.op = "OutputPin::new" ->
            AcqDone(q, "Output", Transport(OutputPin_new(Inner, q.idx)))
      [] q.op = "SpiDevice::new" ->
            AcqDone(q, "SpiDevice", Transport(SpiDevice_new(Inner, q.idx)))
      [] q.op = "I2c::new" ->
            AcqDone(q, "I2c", Transport(I2c_new(Inner)))
      [] q.op = "OutputPin::set" ->
            LET o == Transport(OutputPin_set(Inner, q.h.idx, q.state))
            IN  Done(o.inner, o.io, o.result, rxq, RegLast(q.op, q.h.idx, o), {})
      [] q.op = "SpiDevice::transaction" ->
            LET a == SpiDevice_transaction(Acc(<<>>, rxq, 0, 0, <<>>, <<>>, "Ok"),
                                           Polarity(q.h.pol), q.h.idx, value, direction, q.f)
            IN  Done(Inner, a.io, a.result, a.rxq,
                     SpiLast(q.op, q.h, BusOp("none", <<>>, 0), q.f, a), {})
      [] q.op = "write" ->
            LET a == RunTrips(IF q.h.fast
                              THEN write_fast(q.addr, q.bytes, q.h.margin, value, direction)
                              ELSE write_slow(q.addr, q.bytes, q.h.margin, value, direction),
                              1, slave, Acc(<<>>, rxq, 0, 0, <<>>, <<>>, "Ok"))
            IN  Done(Inner, a.io, a.result, a.rxq,
                     LastRec(q.op, 0, q.addr, q.bytes, 0, q.h.fast, q.h.margin, a.result,
                             a.io, a.acks, a.buf), {})

\* the caller reaches mtx.lock()
Arrive(t, q, acq) ==
    /\ pc[t].at = "idle"
    /\ HasSession(session, "mpsse")
    /\ pc' = [pc EXCEPT ![t] = PcRec("wait", q, <<>>, 0, <<>>, 0, NoOp, {})]
    /\ nacq' = nacq + acq
    /\ UNCHANGED <<pins, direction, value, poisoned, handles, slave, rxq, last, lock, wire>>
    /\ UNCHANGED <<sessVars, fault, sbbVars>>

CallOutputPinNew(t, idx) ==
    /\ nacq < MaxAcq
    /\ Arrive(t, Req("OutputPin::new", idx, NoHandle, FALSE, <<>>, 0, <<>>), 1)

CallSpiDeviceNew(t, cs_idx) ==
    /\ nacq < MaxAcq
    /\ Arrive(t, Req("SpiDevice::new", cs_idx, NoHandle, FALSE, <<>>, 0, <<>>), 1)

CallI2cNew(t) ==
    /\ nacq < MaxAcq
    /\ Arrive(t, Req("I2c::new", 0, NoHandle, FALSE, <<>>, 0, <<>>), 1)

CallOutputPinSet(t, state) ==
    \E h \in handles :
        /\ h.kind = "Output"
        /\ Arrive(t, Req("OutputPin::set", h.idx, h, state, <<>>, 0, <<>>), 0)

CallSpiDeviceTransaction(t, f) ==
    \E h \in handles :
        /\ h.kind = "SpiDevice"
        /\ Arrive(t, Req("SpiDevice::transaction", h.idx, h, FALSE, f, 0, <<>>), 0)

CallI2cWrite(t, addr, bytes) ==
    \E h \in handles :
        /\ h.kind = "I2c"
        /\ bytes # <<>>
        /\ Arrive(t, Req("write", 0, h, FALSE, <<>>, addr, bytes), 0)

\* mtx.lock().expect(..): the caller gets the mutex when it is free; a poisoned
\* mutex makes it panic without the lock
Lock(t) ==
    /\ lock = NoThread
    /\ pc[t].at \in {"wait", "out"}
    /\ IF pc[t].at = "out"
       THEN /\ lock' = t
            /\ pc' = [pc EXCEPT ![t].at = "in"]
            /\ UNCHANGED <<pins, direction, value, poisoned, rxq, last>>
       ELSE IF poisoned
       THEN /\ pc' = [pc EXCEPT ![t] = Idle]
            /\ last' = [NoOp EXCEPT !.op = pc[t].req.op, !.idx = pc[t].req.idx,
                                    !.result = "Panic"]
            /\ UNCHANGED <<pins, direction, value, poisoned, rxq, lock>>
       ELSE \E r \in { Eval(pc[t].req) } :
               /\ Len(r.rxq) <= MaxPending
               /\ lock' = t
               /\ Store(r)
               /\ rxq' = r.rxq
               /\ pc' = [pc EXCEPT ![t] = PcRec("in", pc[t].req, r.io, 0, Critical(r.io), 1,
                                                r.ret, r.hs)]
               /\ UNCHANGED last
    /\ UNCHANGED <<handles, slave, nacq, wire, sessVars, fault, sbbVars>>

\* the next transport call of the operation in its critical section
Emit(t) ==
    /\ pc[t].at = "in"
    /\ pc[t].k < pc[t].ends[pc[t].seg]
    /\ wire' = Append(wire, [t |-> t, op |-> pc[t].req.op, idx |-> pc[t].req.idx,
                               e |-> pc[t].io[pc[t].k + 1]])
    /\ pc' = [pc EXCEPT ![t].k = @ + 1]
    /\ UNCHANGED <<pins, direction, value, poisoned, handles, slave, rxq, nacq, last, lock>>
    /\ UNCHANGED <<sessVars, fault, sbbVars>>

\* C39 mutant: an operation that returns a transport error keeps the guard
Unlock_KeptOnError(t) ==
    /\ pc[t].at = "in"
    /\ pc[t].k = pc[t].ends[pc[t].seg]
    /\ lock' = IF pc[t].ret.result = "Err" THEN t ELSE NoThread
    /\ IF pc[t].seg = Len(pc[t].ends)
       THEN /\ pc' = [pc EXCEPT ![t] = Idle]
            /\ last' = pc[t].ret
            /\ handles' = handles \cup pc[t].hs
            /\ wire' = IF \A u \in Threads \ {t} : pc[u].k = 0 THEN <<>> ELSE wire
       ELSE /\ pc' = [pc EXCEPT ![t].at = "out", ![t].seg = @ + 1]
            /\ UNCHANGED <<last, handles, wire>>
    /\ UNCHANGED <<pins, direction, value, poisoned, slave, rxq, nacq>>
    /\ UNCHANGED <<sessVars, fault, sbbVars>>

\* the guard goes out of scope: at the return, by `?`, or by unwinding
Unlock(t) ==
    /\ pc[t].at = "in"
    /\ pc[t].k = pc[t].ends[pc[t].seg]
    /\ lock' = NoThread
    /\ IF pc[t].seg = Len(pc[t].ends)
       THEN /\ pc' = [pc EXCEPT ![t] = Idle]
            /\ last' = pc[t].ret
            /\ handles' = handles \cup pc[t].hs
            /\ wire' = IF \A u \in Threads \ {t} : pc[u].k = 0 THEN <<>> ELSE wire
       ELSE /\ pc' = [pc EXCEPT ![t].at = "out", ![t].seg = @ + 1]
            /\ UNCHANGED <<last, handles, wire>>
    /\ UNCHANGED <<pins, direction, value, poisoned, slave, rxq, nacq>>
    /\ UNCHANGED <<sessVars, fault, sbbVars>>

\* the transport starts or stops failing the k-th call of each operation
MaxFault == 3

TransportFault(k) ==
    /\ \A t \in Threads : pc[t].at = "idle"
    /\ fault # k
    /\ fault' = k
    /\ UNCHANGED <<pins, direction, value, poisoned, handles, slave, rxq, nacq, last>>
    /\ UNCHANGED <<sessVars, sbbVars, concVars>>

(***************************************************************************)
(* Specifications.                                                         *)
(***************************************************************************)

\* the state a session starts from, whichever init makes it
Unopened ==
    /\ pins = GpioByte.pins
    /\ direction = GpioByte.direction
    /\ value = GpioByte.value
    /\ poisoned = FALSE
    /\ handles = {}
    /\ nacq = 0
    /\ last = NoOp
    /\ fault = 0
    /\ upper = GpioByte
    /\ latch = PowerUp
    /\ wlog = <<>>
    /\ lock = NoThread
    /\ pc = [t \in Threads |-> Idle]
    /\ wire = <<>>

Fresh ==
    /\ Unopened
    /\ rxq = <<>>
    /\ session = "mpsse"
    /\ ninit = 1

\* the session registry: every acquisition on every pin, GPIO output, drops
Init == Fresh /\ slave = {}

Next ==
    \/ \E idx \in PinIdx : OutputPinNew(idx)
    \/ \E idx \in PinIdx : InputPinNew(idx)
    \/ SpiNew
    \/ I2cNew
    \/ \E cs_idx \in 0 .. NumPins : SpiDeviceNew(cs_idx)
    \/ \E state \in BOOLEAN : OutputPinSet(state)
    \/ DropHandle
    \/ I2cWrite(80, Payload(1))
    \/ SpiBusCall(BusOp("transfer_in_place", Payload(1), 1))
    \/ SpiDeviceTransaction(<< BusOp("transfer_in_place", Payload(1), 1) >>)

Spec == Init /\ [][Next]_vars

\* the I2C engine: one GPIO output beside the bus, every slave behaviour
I2cGpio == {3}
AckPositions == 1 .. (MaxLen + 2)

\* the slave acknowledges everything, or all but one position, or nothing from
\* some position on
Slaves ==
    {{}} \cup {{k} : k \in AckPositions} \cup {{j \in AckPositions : j >= k} : k \in AckPositions}

InitI2c == Fresh /\ slave \in Slaves

NextI2c ==
    \/ I2cNew
    \/ \E idx \in I2cGpio : OutputPinNew(idx)
    \/ \E state \in BOOLEAN : OutputPinSet(state)
    \/ \E fast \in BOOLEAN : SetFast(fast)
    \/ \E m \in 0 .. MaxMargin : SetStopStartLen(m)
    \/ \E a \in Addresses, n \in 0 .. MaxLen : I2cRead(a, n)
    \/ \E a \in Addresses, b \in Payloads : I2cWrite(a, b)
    \/ \E a \in Addresses, b \in Payloads, n \in 0 .. MaxLen : I2cWriteRead(a, b, n)

SpecI2c == InitI2c /\ [][NextI2c]_vars

\* SPI: the bus handle or a device handle on one chip-select pin
SpiCs == {3}

InitSpi == Fresh /\ slave = {}

NextSpi ==
    \/ SpiNew
    \/ \E cs_idx \in SpiCs : SpiDeviceNew(cs_idx)
    \/ \E o \in BusOps : SpiBusCall(o)
    \/ \E f \in Closures : SpiDeviceTransaction(f)

SpecSpi == InitSpi /\ [][NextSpi]_vars

\* GPIO beside the SPI bus: two inputs, one output, the bus with a
\* transfer that reads as much as it writes and one that reads less
GpioOut == {4}
GpioIn == {3, 7}

\* bank samples: all pins low, all high, one input high, one input low
Samples ==
    {0, 255} \cup {Shl8(1, i) : i \in GpioIn} \cup {255 - Shl8(1, i) : i \in GpioIn}

GpioBusOps ==
    {BusOp("transfer", Payload(1), 1), BusOp("transfer", Payload(2), 1)}

InitGpio == Fresh /\ slave = {}

NextGpio ==
    \/ \E idx \in GpioIn : InputPinNew(idx)
    \/ \E idx \in GpioOut : OutputPinNew(idx)
    \/ SpiNew
    \/ \E state \in BOOLEAN : OutputPinSet(state)
    \/ \E o \in GpioBusOps : SpiBusCall(o)
    \/ \E s \in Samples : InputPinGet(s)
    \/ \E s \in Samples : InputPinIsHigh(s)
    \/ \E s \in Samples : InputPinIsLow(s)

SpecGpio == InitGpio /\ [][NextGpio]_vars

\* SPI under either polarity: the bus or a device on CS 3, and a GPIO output
PolClosures ==
    {<< BusOp("transfer_in_place", Payload(1), 1) >>, << BusOp("write", Payload(1), 0) >>}

InitPol == Fresh /\ slave = {}

NextPol ==
    \/ SpiNew
    \/ \E cs_idx \in SpiCs : SpiDeviceNew(cs_idx)
    \/ \E idx \in GpioOut : OutputPinNew(idx)
    \/ \E state \in BOOLEAN : OutputPinSet(state)
    \/ \E cpol \in {"IdleLow", "IdleHigh"} : SetClockPolarity(cpol)
    \/ \E o \in GpioBusOps : SpiBusCall(o)
    \/ \E f \in PolClosures : SpiDeviceTransaction(f)

SpecPol == InitPol /\ [][NextPol]_vars

\* a bit-bang session from the closed device on: init, the pins AD0 and AD1
\* and one pin of the upper bank, set and get
Strays == {[i \in 1 .. n |-> PowerUp] : n \in 0 .. MaxStray}

Closed ==
    /\ Unopened
    /\ rxq \in Strays
    /\ session = "closed"
    /\ ninit = 0
    /\ slave = {}

SbbPins == {Lower(0), Lower(1), Upper(0)}

InitSbb == Closed

NextSbb ==
    \/ \E fail \in 0 .. Len(InitCallsSbb) : FtHalSbbInit(fail)
    \/ \E pin \in SbbPins : OutputPinSbbNew(pin)
    \/ \E pin \in SbbPins : InputPinSbbNew(pin)
    \/ \E state \in BOOLEAN : OutputPinSbbSet(state)
    \/ InputPinSbbGet

SpecSbb == InitSbb /\ [][NextSbb]_vars


\* a device from before init on, under either engine
InitDev ==
    /\ Closed
    /\ rxq = <<>>

NextDev ==
    \/ \E fail \in 0 .. Len(InitCalls) : FtHalInit(fail)
    \/ \E fail \in 0 .. Len(InitCallsSbb) : FtHalSbbInit(fail)
    \/ \E idx \in I2cGpio : OutputPinNew(idx)
    \/ SpiNew
    \/ I2cNew
    \/ \E state \in BOOLEAN : OutputPinSet(state)
    \/ SpiBusCall(BusOp("transfer_in_place", Payload(1), 1))
    \/ I2cWrite(80, Payload(1))
    \/ \E pin \in SbbPins : OutputPinSbbNew(pin)
    \/ \E pin \in SbbPins : InputPinSbbNew(pin)
    \/ \E state \in BOOLEAN : OutputPinSbbSet(state)
    \/ InputPinSbbGet

SpecDev == InitDev /\ [][NextDev]_vars

\* GPIO outputs under either engine, beside an input and the I2C bus
OutPins == {3, 4}
OutPinsSbb == {Lower(0), Lower(1)}

InitOut == InitDev

NextOut ==
    \/ \E fail \in 0 .. Len(InitCalls) : FtHalInit(fail)
    \/ \E fail \in 0 .. Len(InitCallsSbb) : FtHalSbbInit(fail)
    \/ \E idx \in OutPins : OutputPinNew(idx)
    \/ \E idx \in OutPins : InputPinNew(idx)
    \/ I2cNew
    \/ \E state \in BOOLEAN : OutputPinSet(state)
    \/ \E pin \in OutPinsSbb : OutputPinSbbNew(pin)
    \/ \E pin \in OutPinsSbb : InputPinSbbNew(pin)
    \/ \E state \in BOOLEAN : OutputPinSbbSet(state)
    \/ InputPinSbbGet

SpecOut == InitOut /\ [][NextOut]_vars

\* two callers on one session: the device on CS 3 or the I2C bus, and a GPIO
ConcCs == {3}
ConcGpio == {4}
ConcClosures ==
    {<< BusOp("transfer_in_place", Payload(1), 1) >>,
     << BusOp("write", Payload(1), 0), BusOp("transfer", Payload(1), 2) >>}

InitConc == Fresh /\ slave = {}

Calls(t) ==
    \/ \E idx \in ConcGpio : CallOutputPinNew(t, idx)
    \/ \E cs \in ConcCs : CallSpiDeviceNew(t, cs)
    \/ CallI2cNew(t)
    \/ \E state \in BOOLEAN : CallOutputPinSet(t, state)
    \/ \E f \in ConcClosures : CallSpiDeviceTransaction(t, f)
    \/ CallI2cWrite(t, 80, Payload(MaxLen))
    \/ Lock(t)
    \/ Emit(t)
    \/ Unlock(t)

NextConc == \E t \in Threads : Calls(t)

SpecConc == InitConc /\ [][NextConc]_vars

\* one caller on a session whose transport fails
InitFault == Fresh /\ slave \in {{}, {2}}

NextFault ==
    \/ Calls(1)
    \/ \E k \in 0 .. MaxFault : TransportFault(k)

SpecFault == InitFault /\ [][NextFault]_vars

\* two callers on one session whose transport may fail and whose slave may not
\* acknowledge, under a fair mutex and a transport that returns from every call;
\* the transport fails a send (the first or the third call of an operation), so
\* that no unread response is left behind to count against MaxPending
LiveFaults == {0, 1, 3}

InitLive == Fresh /\ slave \in {{}, {2}}

\* what a caller does: acquire the I2C bus, an SPI device or a GPIO output, write
\* the output, run a transaction, write to the slave, and the steps of its call
LiveCalls(t) ==
    \/ \E idx \in ConcGpio : CallOutputPinNew(t, idx)
    \/ CallI2cNew(t)
    \/ \E cs \in ConcCs : CallSpiDeviceNew(t, cs)
    \/ CallOutputPinSet(t, TRUE)
    \/ CallSpiDeviceTransaction(t, << BusOp("write", Payload(1), 0) >>)
    \/ CallI2cWrite(t, 80, Payload(1))
    \/ Lock(t)
    \/ Emit(t)
    \/ Unlock(t)

NextLive ==
    \/ \E t \in Threads : LiveCalls(t)
    \/ \E k \in LiveFaults : TransportFault(k)

\* the guard of Lock(t): the mutex is free and t is in mtx.lock()
CanLock(t) ==
    /\ lock = NoThread
    /\ pc[t].at \in {"wait", "out"}
    /\ (pc[t].at = "wait" /\ ~poisoned) => Len(Eval(pc[t].req).rxq) <= MaxPending

\* a fair mutex: a caller that finds the mutex free again and again gets it
\* (strong fairness of Lock(t), with its guard written out); a transport call
\* returns and a guard that went out of scope is dropped (weak fairness)
Fairness ==
    \A t \in Threads :
        /\ <>[](~CanLock(t)) \/ []<><<Lock(t)>>_vars
        /\ WF_vars(Emit(t))
        /\ WF_vars(Unlock(t))

SpecLive == InitLive /\ [][NextLive]_vars /\ Fairness

(***************************************************************************)
(* Properties.                                                             *)
(***************************************************************************)
AcqOps == {"OutputPin::new", "InputPin::new", "Spi::new", "SpiDevice::new", "I2c::new"}
I2cOps == {"read", "write", "write_read"}

\* the pins an acquisition passes to allocate_pin
Required(op, idx) ==
    IF op \in {"OutputPin::new", "InputPin::new"} THEN {idx}
    ELSE IF op = "SpiDevice::new" THEN {0, 1, 2, idx}
    ELSE {0, 1, 2}

\* the step is an acquisition that needs a pin the registry already records as owned
AcquiresOwnedPin ==
    /\ nacq' = nacq + 1
    /\ \E i \in Required(last'.op, last'.idx) \cap PinIdx : pins[i] # None

\* the commands a call handed to the transport, in issuance order
SentCmds(io) ==
    LET sends == SelectSeq(io, LAMBDA e : e.ev = "send")
    IN  Flatten([k \in 1 .. Len(sends) |-> sends[k].cmds])

TripCmds(trips) == Flatten([k \in 1 .. Len(trips) |-> trips[k].cmds])

\* a command stream without its flush markers
Strip(cmds) == SelectSeq(cmds, LAMBDA c : c.op # "send_immediate")

IsPrefix(a, b) == Len(a) <= Len(b) /\ a = SubSeq(b, 1, Len(a))

EndsWith(a, tail) ==
    Len(tail) <= Len(a) /\ SubSeq(a, Len(a) - Len(tail) + 1, Len(a)) = tail

\* what a strategy encodes for the arguments of the last call
Encode(fast) ==
    CASE last.op = "read" ->
            IF fast THEN read_fast(last.addr, last.rdlen, last.margin, value, direction)
                    ELSE read_slow(last.addr, last.rdlen, last.margin, value, direction)
      [] last.op = "write" ->
            IF fast THEN write_fast(last.addr, last.wr, last.margin, value, direction)
                    ELSE write_slow(last.addr, last.wr, last.margin, value, direction)
      [] last.op = "write_read" ->
            IF fast THEN write_read_fast(last.addr, last.wr, last.rdlen, last.margin,
                                         value, direction)
                    ELSE write_read_slow(last.addr, last.wr, last.rdlen, last.margin,
                                         value, direction)

\* the last operation is an I2C call that took the lock and ran
I2cRan == last.op \in I2cOps /\ last.result \in {"Ok", "Nak"}

\* START: data falls while the clock is high; STOP: the clock rises, then data,
\* and both lines are handed back with the session's own value and direction
StartSeq(m, v, d) ==
    [i \in 1 .. (2 * m) |->
        set_gpio_lower(IF i <= m THEN Or8(v, SCL + SDA) ELSE Or8(v, SCL), Or8(d, SCL + SDA))]

StopIdleSeq(m, v, d) ==
    [i \in 1 .. (3 * m) |->
        set_gpio_lower(IF i <= m THEN v
                       ELSE IF i <= 2 * m THEN Or8(v, SCL) ELSE Or8(v, SCL + SDA),
                       Or8(d, SCL + SDA))]
    \o << set_gpio_lower(v, d) >>

SentStopIdle ==
    EndsWith(Strip(SentCmds(last.io)), StopIdleSeq(last.margin, value, direction))

NumSends == Len(SelectSeq(last.io, LAMBDA e : e.ev = "send"))

\* bytes clocked out on the I2C bus: address bytes and payload bytes
NumBytesOut == CountOp(SentCmds(last.io), "clock_bits_out", 8)

\* C1: allocate_pin(i, X) on a pin that already has an owner panics and leaves
\* pins, direction and value as they were, for every pin, every X and every
\* owner; a GPIO acquisition of an owned pin therefore ends in the panic with the
\* registry untouched.
C1_OwnedPinAllocationFails ==
    [][ /\ \A i \in PinIdx, X \in PinUse :
              pins[i] # None =>
                  LET a == allocate_pin(Inner, i, X)
                  IN  /\ a.panicked
                      /\ a.pins = pins
                      /\ a.direction = direction
                      /\ a.value = value
        /\ (/\ AcquiresOwnedPin
            /\ last'.op \in {"OutputPin::new", "InputPin::new"})
           => (/\ last'.result = "Panic"
               /\ pins' = pins
               /\ direction' = direction
               /\ value' = value) ]_vars

\* C1 witness: an output pin was asked for on a pin owned as an input, and panicked
C1_Witness ==
    /\ last.op = "OutputPin::new"
    /\ last.result = "Panic"
    /\ nacq = 2
    /\ pins[last.idx] = "Input"

\* C2: once pins[i] records an owner, no step of any operation (acquisition, bus
\* call, GPIO write, handle drop) changes that entry, and an acquisition that
\* needs an owned pin fails whether or not the owner's handle is still alive.
C2_OwnershipIsPermanent ==
    [][ /\ \A i \in PinIdx : pins[i] # None => pins'[i] = pins[i]
        /\ AcquiresOwnedPin => last'.result = "Panic" ]_vars

\* C2 witness: the handle of an output pin was dropped, and the pin asked for again
C2_Witness ==
    /\ last.op = "InputPin::new"
    /\ last.result = "Panic"
    /\ nacq = 2
    /\ handles = {}
    /\ pins[last.idx] = "Output"

\* C3: an acquisition that needs an owned pin panics before its first send: it
\* has handed nothing to the transport and the chip has produced nothing.
C3_ConflictBeforeAnySend ==
    [][ /\ AcquiresOwnedPin =>
              (last'.result = "Panic" /\ last'.io = <<>> /\ rxq' = rxq)
        /\ (nacq' = nacq + 1 /\ last'.result = "Panic") => last'.io = <<>> ]_vars

\* C3 witness: the SPI bus was asked for while pin 2, the last one it checks, was
\* owned by an output pin
C3_Witness ==
    /\ last.op = "Spi::new"
    /\ last.result = "Panic"
    /\ nacq = 2
    /\ pins[2] = "Output"
    /\ pins[0] = "Spi"

\* C4: for read, write and write_read with non-empty arguments, what one strategy
\* sent, flush markers removed, is what the other strategy encodes for the same
\* arguments, flush markers removed; a slow call cut short by a NAK has sent a
\* prefix of it.
C4_FastAndSlowStreamsAgree ==
    I2cRan =>
        LET sent == Strip(SentCmds(last.io))
            other == Strip(TripCmds(Encode(~last.fast)))
        IN  /\ (last.fast \/ last.result = "Ok") => sent = other
            /\ IsPrefix(sent, other)

\* C4 witness: a fast write_read of two bytes out and two bytes in, margin 1, with
\* a GPIO output held high beside the bus
C4_Witness ==
    /\ last.op = "write_read"
    /\ last.fast
    /\ last.result = "Ok"
    /\ Len(last.wr) = 2
    /\ last.rdlen = 2
    /\ last.margin = 1
    /\ value = 8

\* C5: the ACK check takes each of the 256 sample values as a NAK exactly when its
\* bit 0 is set, and on every path the call's verdict follows it: the result is
\* NoAcknowledge exactly when a sample it read has bit 0 set, and a slow call has
\* gone past a sample only if its bit 0 was clear.
C5_AckIsBitZero ==
    I2cRan =>
        /\ \A v \in 0 .. 255 : IsNak(v) <=> (v % 2 = 1)
        /\ (last.result = "Nak") <=> (\E k \in 1 .. Len(last.acks) : last.acks[k] % 2 = 1)
        /\ ~last.fast => \A k \in 1 .. (Len(last.acks) - 1) : last.acks[k] % 2 = 0

\* C5 witness: a call ended Ok although a sample had bits 1..7 all set
C5_Witness ==
    /\ I2cRan
    /\ last.result = "Ok"
    /\ \E k \in 1 .. Len(last.acks) : last.acks[k] = 254

\* C6: in slow mode a NAK at the k-th sample of a write or write_read ends the
\* call there: it is the last sample read, reading it is the last transport
\* call, only k batches were sent and only k bytes (the address bytes and the
\* payload bytes up to the refused one) were clocked out.
C6_SlowNakReturnsAtOnce ==
    (I2cRan /\ ~last.fast /\ last.op \in {"write", "write_read"}) =>
        \A k \in 1 .. Len(last.acks) :
            last.acks[k] % 2 = 1 =>
                /\ last.result = "Nak"
                /\ k = Len(last.acks)
                /\ last.io[Len(last.io)] = RecvEv(1, << last.acks[k] >>)
                /\ NumSends = k
                /\ NumBytesOut = k

\* C6 witness: a slow write_read of two bytes refused at the first payload byte
C6_Witness ==
    /\ last.op = "write_read"
    /\ ~last.fast
    /\ last.result = "Nak"
    /\ Len(last.wr) = 2
    /\ Len(last.acks) = 2

\* C7: a fast call makes one send, before any recv; the batch runs from START to
\* STOP and idle and clocks the address byte(s) and every payload byte; every
\* ACK position and every data byte is read; and the verdict is NoAcknowledge
\* exactly when some ACK position has bit 0 set.
C7_FastIsOneBatch ==
    (I2cRan /\ last.fast) =>
        LET sent == Strip(SentCmds(last.io))
            nout == CASE last.op = "read" -> 1
                      [] last.op = "write" -> 1 + Len(last.wr)
                      [] last.op = "write_read" -> 2 + Len(last.wr)
        IN  /\ NumSends = 1
            /\ last.io[1].ev = "send"
            /\ IsPrefix(StartSeq(last.margin, value, direction), sent)
            /\ SentStopIdle
            /\ NumBytesOut = nout
            /\ Len(last.acks) = nout
            /\ CountOp(sent, "clock_bits_in", 1) = nout
            /\ CountOp(sent, "clock_bits_in", 8) = last.rdlen
            /\ Len(last.buf) = last.rdlen
            /\ (last.result = "Nak") <=> (\E k \in 1 .. nout : last.acks[k] % 2 = 1)

\* C7 witness: a fast write of two bytes whose first payload byte alone is refused
C7_Witness ==
    /\ last.op = "write"
    /\ last.fast
    /\ last.result = "Nak"
    /\ Len(last.wr) = 2
    /\ Len(last.acks) = 3
    /\ last.acks[2] % 2 = 1
    /\ last.acks[3] % 2 = 0

\* C8 as stated: every I2C call that ran has sent STOP and the idle set-pins before
\* it returned, whatever its result and its strategy.
C8_AlwaysStopAndIdle == I2cRan => SentStopIdle

\* C8, amended: a call has sent STOP and the idle set-pins exactly when it was not
\* cut short: always in fast mode, in slow mode when it ended Ok, and in a slow
\* write refused at its last payload byte (whose batch carries the STOP).  A slow
\* call refused earlier ends on the clock-in of the refused sample.
C8_StopUnlessSlowAbort ==
    I2cRan =>
        LET lastbyte == last.op = "write" /\ Len(last.acks) = 1 + Len(last.wr)
            sent == SentCmds(last.io)
        IN  /\ SentStopIdle <=> (last.fast \/ last.result = "Ok" \/ lastbyte)
            /\ ~SentStopIdle =>
                   sent[Len(sent) - 1] = clock_bits_in(BITS_IN, 1)

\* C8 witness: a slow write refused at the address
C8_Witness ==
    /\ last.op = "write"
    /\ ~last.fast
    /\ last.result = "Nak"
    /\ Len(last.acks) = 1
    /\ last.margin = 1

\* C9 as stated: a transfer whose read slice is shorter than its write slice
\* returns the first read.len() looped-back bytes, clocks all of write, and leaves
\* no unread response byte behind.
C9_ShortReadDrainsSurplus ==
    (last.op = "Spi::transfer" /\ last.result = "Ok" /\ last.rdlen < Len(last.wr)) =>
        /\ last.buf = SubSeq(last.wr, 1, last.rdlen)
        /\ \E j \in 1 .. Len(last.io) :
               /\ last.io[j].ev = "send"
               /\ last.io[j].cmds[1].op = "clock_data"
               /\ last.io[j].cmds[1].data = last.wr
        /\ rxq = <<>>

\* C9: a transfer of two bytes out and one byte in, made on an empty queue, has
\* left the second byte unread
C9_Witness ==
    /\ last.op = "Spi::transfer"
    /\ last.result = "Ok"
    /\ last.wr = << 222, 173 >>
    /\ last.buf = << 222 >>
    /\ rxq = << 173 >>

\* C10 as stated: an SPI call, on the bus or inside a device transaction, never
\* asks the transport for more bytes than the batch it has just sent produces.
C10_NeverAsksForMoreThanClocked ==
    (last.op = "Spi::transfer" \/ last.op = "SpiDevice::transaction") =>
        \A j \in 1 .. Len(last.io) :
            last.io[j].ev = "recv" =>
                /\ j > 1
                /\ last.io[j - 1].ev = "send"
                /\ last.io[j].n <= Len(ChipExec(last.io[j - 1].cmds, 1, {}, 0, 0))

\* C10: a device transaction whose closure transfers one byte out and two in has
\* asked for two bytes and ended in the transport's error
C10_Witness ==
    /\ last.op = "SpiDevice::transaction"
    /\ last.result = "Err"
    /\ Len(last.closure) = 1
    /\ last.closure[1] = BusOp("transfer", << 222 >>, 2)
    /\ \E j \in 1 .. Len(last.io) : last.io[j] = RecvEv(2, << 222 >>)

\* C11 as stated: on the looped-back bus a transfer whose read slice is as long as
\* its non-empty write slice w returns w, and transfer_in_place leaves w in place.
C11_SymmetricTransferEchoes ==
    (/\ last.op \in {"Spi::transfer", "Spi::transfer_in_place"}
     /\ last.result = "Ok"
     /\ last.wr # <<>>
     /\ last.rdlen = Len(last.wr)) => last.buf = last.wr

\* C11: after a transfer of two bytes out and one in, a symmetric transfer of one
\* byte has returned the byte the earlier call left unread
C11_Witness ==
    /\ last.op = "Spi::transfer"
    /\ last.result = "Ok"
    /\ last.wr = << 222 >>
    /\ last.rdlen = 1
    /\ last.buf = << 173 >>

\* the set-pins command of a transport send, with the level it gives pin idx
SetsPin(e, idx, level) ==
    /\ e.ev = "send"
    /\ e.cmds # <<>>
    /\ e.cmds[1].op = "set_gpio_lower"
    /\ Bit(e.cmds[1].x, idx) = level

ClocksData(e) ==
    /\ e.ev = "send"
    /\ \E k \in 1 .. Len(e.cmds) : e.cmds[k].op \in {"clock_data", "clock_data_out"}

\* C13: a device transaction that got the lock sends set-pins with chip-select low
\* first and set-pins with chip-select high last, every clock command of the
\* closure lies strictly between the two and no other set-pins command does, and
\* this is so when the closure returned an error as well
C13_CsBracketsClosure ==
    (last.op = "SpiDevice::transaction" /\ last.result # "Panic") =>
        LET n == Len(last.io)
        IN  /\ n >= 2
            /\ SetsPin(last.io[1], last.idx, 0)
            /\ SetsPin(last.io[n], last.idx, 1)
            /\ \A k \in 1 .. n :
                   /\ ClocksData(last.io[k]) => (1 < k /\ k < n)
                   /\ (1 < k /\ k < n) => ~SetsPin(last.io[k], last.idx, 0)
                                          /\ ~SetsPin(last.io[k], last.idx, 1)
            /\ Len(SelectSeq(last.io, ClocksData)) >=
                   IF last.result = "Ok" THEN Len(last.closure) ELSE 1

\* C13: a transaction whose closure wrote a byte and then failed in a transfer has
\* deasserted chip-select after the failed call
C13_Witness ==
    /\ last.op = "SpiDevice::transaction"
    /\ last.result = "Err"
    /\ Len(last.closure) = 2
    /\ Len(SelectSeq(last.io, ClocksData)) = 2
    /\ SetsPin(last.io[Len(last.io)], last.idx, 1)

\* a call of the last operation that was handed a zero-length buffer
ZeroLength ==
    \/ last.op \in {"write", "Spi::write", "Spi::transfer_in_place"} /\ last.wr = <<>>
    \/ last.op \in {"read", "Spi::read"} /\ last.rdlen = 0
    \/ last.op \in {"write_read", "Spi::transfer"} /\ (last.wr = <<>> \/ last.rdlen = 0)

\* C18 as stated: an I2C read, write or write_read and an SPI write, read, transfer
\* or transfer_in_place with a zero-length buffer returns the malformed-parameter
\* error with nothing handed to the transport.
C18_ZeroLengthIsInvalidParams ==
    ZeroLength => (last.result = "InvalidParams" /\ last.io = <<>>)

\* C18: Spi::write with an empty slice has handed a batch to the transport and
\* returned Ok
C18_Witness ==
    /\ last.op = "Spi::write"
    /\ last.wr = <<>>
    /\ last.result = "Ok"
    /\ NumSends = 1

\* the output bytes written by set so far: w0, w1, ...
SetBytes == SelectSeq(wlog, LAMBDA w : w.by = "set")

\* the step is a get that wrote to the chip
GetStep ==
    /\ Len(wlog') = Len(wlog) + 1
    /\ wlog'[Len(wlog')].by = "get"

\* C15: a get re-sends the output byte as it stands; with writes w0 .. w(i-1) made
\* by set before it, the pin states it takes from the chip agree with w(i-1) on
\* every output pin, and on AD1, wired to the output AD0, it returns bit 0 of
\* w(i-1); the first get before any byte was written returns the power-up level
C15_GetReturnsLastWrite ==
    [][GetStep =>
        LET read_bytes == last'.io[2].bytes
            pin_states == read_bytes[Len(read_bytes)]
            w == SetBytes[Len(SetBytes)].byte
        IN  /\ last'.op = "InputPinSbb::get"
            /\ last'.result = "Ok"
            /\ last'.ret = (Bit(pin_states, last'.idx) = 1)
            /\ wlog'[Len(wlog')].byte = (IF SetBytes = <<>> THEN GpioByte.value ELSE w)
            /\ wlog = <<>> => (pin_states = PowerUp /\ last'.ret = (Bit(PowerUp, last'.idx) = 1))
            /\ SetBytes # <<>> =>
                   /\ And8(pin_states, direction) = And8(w, direction)
                   /\ (last'.idx = 1 /\ Bit(direction, 0) = 1) => last'.ret = (Bit(w, 0) = 1)
    ]_vars

\* C15: AD0 was set high and then low, and the get on AD1 that followed returned low
C15_Witness ==
    /\ last.op = "InputPinSbb::get"
    /\ last.idx = 1
    /\ last.ret = FALSE
    /\ wlog = << [by |-> "set", byte |-> 1], [by |-> "set", byte |-> 0],
                 [by |-> "get", byte |-> 0] >>

\* C16: in a bit-bang session at most one response byte is unread between calls:
\* set reads the buffer out and then writes, which leaves the one sample of its
\* own byte, and get writes and then reads the buffer out, which leaves none
C16_AtMostOneUnread ==
    session = "sbb" =>
        /\ Len(rxq) <= 1
        /\ (last.op = "OutputPinSbb::set" /\ last.result = "Ok") =>
               /\ Len(last.io) = 2
               /\ last.io[1].ev = "read_to_end"
               /\ last.io[2].ev = "write_all"
               /\ Len(rxq) = 1
        /\ (last.op = "InputPinSbb::get" /\ last.result = "Ok") =>
               /\ Len(last.io) = 2
               /\ last.io[1].ev = "write_all"
               /\ last.io[2].ev = "read_to_end"
               /\ rxq = <<>>
        /\ last.op = "FtHalSbb::init" => rxq = <<>>

\* C16: three sets in a row have left one unread byte
C16_Witness ==
    /\ Len(wlog) = MaxWrites
    /\ \A k \in 1 .. Len(wlog) : wlog[k].by = "set"
    /\ last.op = "OutputPinSbb::set"
    /\ Len(rxq) = 1

\* C17: an input or output pin of the upper bank asked of the bit-bang engine ends
\* in a panic with no call to set_bitmode, and no handle for the pin exists
C17_UpperBankPanics ==
    /\ (last.op \in {"OutputPinSbb::new", "InputPinSbb::new"} /\ last.bank = "Upper") =>
           /\ last.result = "Panic"
           /\ last.io = <<>>
           /\ poisoned
    /\ \A h \in handles : h.kind \in {"OutputSbb", "InputSbb"} => h.bank = "Lower"

\* C17: an input pin of the upper bank was entered in the upper table and the
\* acquisition panicked
C17_Witness ==
    /\ last.op = "InputPinSbb::new"
    /\ last.bank = "Upper"
    /\ last.result = "Panic"
    /\ upper.pins[0] = "Input"
    /\ handles # {}

InitOps == {"FtHal::init", "FtHalSbb::init"}

\* C19: from the closed device the only step is init and it is the first call;
\* after an init that failed there is no step at all; with a session open every
\* step is an acquisition or a call of that session and init is not called again
C19_InitOnceAndFirst ==
    [][/\ ninit' <= 1
       /\ session = "closed" =>
              /\ ninit = 0 /\ ninit' = 1
              /\ last = NoOp /\ last'.op \in InitOps
              /\ nacq' = 0 /\ handles' = {}
              /\ session' = (IF last'.result # "Ok" THEN "failed"
                             ELSE IF last'.op = "FtHal::init" THEN "mpsse" ELSE "sbb")
       /\ session = "failed" => FALSE
       /\ session \in {"mpsse", "sbb"} =>
              /\ ninit = 1 /\ ninit' = 1
              /\ session' = session
              /\ last'.op \notin InitOps
    ]_vars

\* C19: after the one init a bus was acquired and a bus call made
C19_Witness ==
    /\ session = "mpsse"
    /\ ninit = 1
    /\ nacq > 0
    /\ last.op = "Spi::transfer_in_place"
    /\ last.result = "Ok"

\* the chip-select assert and deassert of a device transaction, on the wire
IsAssert(w) == w.op = "SpiDevice::transaction" /\ SetsPin(w.e, w.idx, 0)

IsDeassert(w) == w.op = "SpiDevice::transaction" /\ SetsPin(w.e, w.idx, 1)

\* C12: a caller that has the lock for a device transaction keeps it until the
\* transaction has made its last transport call, and every transport call on the
\* wire from a chip-select assert up to the deassert that follows it is a call of
\* the transaction that asserted
C12_TransactionHoldsTheBus ==
    /\ \A t \in Threads :
           (pc[t].req.op = "SpiDevice::transaction" /\ pc[t].at \in {"in", "out"}) =>
               (lock = t /\ pc[t].at = "in")
    /\ \A i \in 1 .. Len(wire) :
           IsAssert(wire[i]) =>
               \A j \in (i + 1) .. Len(wire) :
                   (\A m \in (i + 1) .. (j - 1) :
                       ~(IsDeassert(wire[m]) /\ wire[m].t = wire[i].t))
                   => wire[j].t = wire[i].t

\* C12: one caller is past the assert and a clock command of its transaction
\* while the other waits for the lock to write a GPIO pin
C12_Witness ==
    \E t, u \in Threads :
        /\ pc[t].req.op = "SpiDevice::transaction"
        /\ pc[t].at = "in"
        /\ pc[t].k = 2
        /\ Len(wire) = 2
        /\ IsAssert(wire[1])
        /\ ClocksData(wire[2].e)
        /\ pc[u].at = "wait"
        /\ pc[u].req.op = "OutputPin::set"

\* a caller between the first and the last transport call of its operation
InFlight(t) == pc[t].at \in {"in", "out"} /\ 0 < pc[t].k /\ pc[t].k < Len(pc[t].io)

\* C14: at most one caller is in a critical section and it is the lock's holder;
\* a caller between its first and its last transport call holds the lock; the
\* calls of one operation are contiguous on the wire; and a step that writes
\* pins, direction or value, or that makes a transport call, is taken by the
\* holder of the lock
C14_OperationsAreSerialized ==
    /\ [](/\ Cardinality({t \in Threads : pc[t].at = "in"}) <= 1
          /\ \A t \in Threads : pc[t].at = "in" => lock = t
          /\ \A t \in Threads : InFlight(t) => (lock = t /\ pc[t].at = "in")
          /\ \A i, j \in 1 .. Len(wire) :
                 (i < j /\ wire[i].t = wire[j].t) =>
                     \A m \in i .. j : wire[m].t = wire[i].t)
    /\ [][(\/ pins' # pins
           \/ direction' # direction
           \/ value' # value
           \/ Len(wire') > Len(wire)) =>
              /\ lock' \in Threads
              /\ lock \in {NoThread, lock'}
              /\ pc'[lock'].at = "in"
              /\ Len(wire') > Len(wire) => (lock = lock' /\ wire'[Len(wire')].t = lock)
         ]_vars

\* C14: a slow I2C write is in its second round trip while the other caller
\* waits for the lock to write a GPIO pin
C14_Witness ==
    \E t, u \in Threads :
        /\ pc[t].req.op = "write"
        /\ ~pc[t].req.h.fast
        /\ pc[t].at = "in"
        /\ pc[t].k = 3
        /\ Len(pc[t].io) > 4
        /\ lock = t
        /\ pc[u].at = "wait"
        /\ pc[u].req.op = "OutputPin::set"

\* the batches an operation handed to the transport, in order
Batches(io) ==
    LET sends == SelectSeq(io, LAMBDA e : e.ev = "send")
    IN  [k \in 1 .. Len(sends) |-> sends[k].cmds]

\* C20: an operation one of whose transport calls failed returns the error; the
\* failed call is its last, but for the chip-select deassert of a transaction
\* whose closure failed; the batches of an I2C write, also one that ended in
\* NoAcknowledge, are the first batches of its encoding, each handed over once;
\* and a caller that is in no operation does not hold the lock
C20_TransportErrorIsReturned ==
    /\ \A k \in 1 .. Len(last.io) :
           last.io[k].err =>
               /\ last.result = "Err"
               /\ \/ k = Len(last.io)
                  \/ /\ last.op = "SpiDevice::transaction"
                     /\ k > 1
                     /\ Len(last.io) = k + 1
                     /\ SetsPin(last.io[k + 1], last.idx, 1)
    /\ (last.op = "write" /\ \A t \in Threads : pc[t].at \in {"idle", "wait"}) =>
           LET trips == Encode(last.fast)
               sent == Batches(last.io)
           IN  /\ Len(sent) <= Len(trips)
               /\ \A k \in 1 .. Len(sent) : sent[k] = trips[k].cmds
               /\ last.result = "Nak" => last.io[Len(last.io)].ev = "recv"
    /\ last.op = "SpiDevice::transaction" => Len(Batches(last.io)) <= Len(last.closure) + 2
    /\ last.op \in AcqOps \cup {"OutputPin::set"} => Len(last.io) <= 1
    /\ \A t \in Threads : pc[t].at \in {"idle", "wait"} => lock # t

\* C20: the receive of a transfer inside a transaction failed; the transaction
\* deasserted chip-select, returned the error and released the lock
C20_Witness ==
    /\ last.op = "SpiDevice::transaction"
    /\ last.result = "Err"
    /\ Len(last.io) = 4
    /\ last.io[3].ev = "recv"
    /\ last.io[3].err
    /\ lock = NoThread

(***************************************************************************)
(* Input sampling on the MPSSE engine.                                     *)
(***************************************************************************)
GetOps == {"InputPin::get", "InputPin::is_high", "InputPin::is_low"}

\* the step is a call of get, is_high or is_low that returned Ok
GetReturned == last' # last /\ last'.op \in GetOps /\ last'.result = "Ok"

\* C21 as stated: for every pin index i and every bank sample s the chip returns to
\* the read-pins command, get and is_high return true iff bit i of s is 1, is_low
\* returns the negation, and the call leaves direction, value and ownership as
\* they were.
C21_GetReturnsSampledBit ==
    /\ [](\A i \in PinIdx, s \in U8 :
             /\ InputPin_get_value(<< s >>, i) = (Bit(s, i) = 1)
             /\ InputPin_is_high(<< s >>, i) = (Bit(s, i) = 1)
             /\ InputPin_is_low(<< s >>, i) = (Bit(s, i) = 0))
    /\ [][GetReturned =>
             /\ last'.ret = IF last'.op = "InputPin::is_low"
                            THEN Bit(last'.sample, last'.idx) = 0
                            ELSE Bit(last'.sample, last'.idx) = 1
             /\ UNCHANGED <<pins, direction, value, handles>>
         ]_vars

\* C21: the bus left a byte unread, and the get that followed on pin 3 returned
\* bit 3 of that byte, high, while the chip sampled the pin low
C21_Witness ==
    /\ last.op = "InputPin::get"
    /\ last.idx = 3
    /\ last.result = "Ok"
    /\ last.sample = 0
    /\ last.buf = << 173 >>
    /\ last.ret = TRUE
    /\ rxq = << 0 >>

(***************************************************************************)
(* SPI clock polarity.                                                     *)
(***************************************************************************)
\* the set-pins commands of the transport sends of the last operation
SetPinsCmds(io) ==
    LET cmds == SentCmds(io)
    IN  SelectSeq(cmds, LAMBDA c : c.op = "set_gpio_lower")

\* C22 as stated: the clock line idles at the level of the selected polarity: once
\* set_clock_polarity(IdleHigh) was called on the SPI handle, every set-pins
\* command sent afterwards carries level 1 for pin 0, the clock, and after
\* IdleLow (the default) level 0.
C22_IdleLevelFollowsPolarity ==
    \A h \in handles :
        h.kind \in {"Spi", "SpiDevice"} =>
            \A j \in 1 .. Len(SetPinsCmds(last.io)) :
                Bit(SetPinsCmds(last.io)[j].x, 0) = IF h.pol = "IdleHigh" THEN 1 ELSE 0

\* C22: the device was set to IdleHigh, and the transaction that followed clocked
\* its data with the IdleHigh commands between two set-pins commands that hold the
\* clock pin low
C22_Witness ==
    /\ \E h \in handles : h.kind = "SpiDevice" /\ h.pol = "IdleHigh"
    /\ last.op = "SpiDevice::transaction"
    /\ last.result = "Ok"
    /\ Len(SetPinsCmds(last.io)) = 2
    /\ \A j \in 1 .. 2 : Bit(SetPinsCmds(last.io)[j].x, 0) = 0
    /\ \E j \in 1 .. Len(SentCmds(last.io)) :
           /\ SentCmds(last.io)[j].op = "clock_data"
           /\ SentCmds(last.io)[j].mode = "MsbNegIn"

(***************************************************************************)
(* I2C: responses, START, STOP, repeated start, master ACK, address byte.  *)
(***************************************************************************)
\* the bytes the transport calls of an operation received, in the order received
RecvBytes(io) ==
    LET recvs == SelectSeq(io, LAMBDA e : e.ev = "recv")
    IN  Flatten([k \in 1 .. Len(recvs) |-> recvs[k].bytes])

\* the clock-in commands among cmds, in issuance order
ClockIns(cmds) == SelectSeq(cmds, LAMBDA c : c.op = "clock_bits_in")

\* C23: an I2C call that returns Ok or NoAcknowledge has received as many response
\* bytes as it sent clock-in commands, in issuance order: the k-th byte received is
\* the answer to the k-th clock-in command sent, the ACK samples are in ack_buf in
\* the order sampled (for write_read: address+W, the payload bytes, address+R),
\* the i-th data byte clocked in is buffer[i], and nothing is left unread.
C23_ResponsesInIssuanceOrder ==
    I2cRan =>
        LET cmds == SentCmds(last.io)
            ins == ClockIns(cmds)
            got == RecvBytes(last.io)
            nack == CountOp(cmds, "clock_bits_in", 1)
            ndata == CountOp(cmds, "clock_bits_in", 8)
        IN  /\ Len(got) = Len(ins)
            /\ got = ChipExec(cmds, 1, slave, 0, 0)
            /\ rxq = <<>>
            /\ last.acks = [k \in 1 .. nack |-> AckSample(slave, k)]
            /\ \A k \in 1 .. Len(ins) : (ins[k].y = 1) = (k <= nack)
            /\ ndata > 0 =>
                   /\ ndata = last.rdlen
                   /\ last.buf = [i \in 1 .. ndata |-> DataByte(i)]
                   /\ got = last.acks \o last.buf
            /\ (last.op = "write_read" /\ last.result = "Ok") =>
                   /\ nack = 2 + Len(last.wr)
                   /\ ndata = last.rdlen

\* C23: a fast write_read of two bytes out and two in was refused at its second
\* payload byte: all four ACK samples and both data bytes were read, in order
C23_Witness ==
    /\ last.op = "write_read"
    /\ last.fast
    /\ last.result = "Nak"
    /\ Len(last.wr) = 2
    /\ last.acks = << 254, 0, 255, 0 >>
    /\ last.buf = << DataByte(1), DataByte(2) >>
    /\ rxq = <<>>

\* a set-pins command that drives clock and data-out as outputs at the given levels
IsStep(c, clk, data) ==
    /\ c.op = "set_gpio_lower"
    /\ Bit(c.y, 0) = 1
    /\ Bit(c.y, 1) = 1
    /\ Bit(c.x, 0) = clk
    /\ Bit(c.x, 1) = data

\* cmds[from + 1 .. from + m] are all the step (clk, data)
Run(cmds, from, m, clk, data) ==
    /\ from + m <= Len(cmds)
    /\ \A i \in (from + 1) .. (from + m) : IsStep(cmds[i], clk, data)

\* C24 as stated: read, write and write_read open with the steps (clock high, data
\* high), (clock high, data low), (clock low, data low), in this order, clock and
\* data-out enabled as outputs, each step repeated exactly start_stop_margin
\* times: the address byte follows the last of them.
C24_StartRepeatsEachStep ==
    I2cRan =>
        LET cmds == SentCmds(last.io)
            m == last.margin
        IN  /\ Run(cmds, 0, m, 1, 1)
            /\ Run(cmds, m, m, 1, 0)
            /\ Run(cmds, 2 * m, m, 0, 0)
            /\ Len(cmds) > 3 * m
            /\ cmds[3 * m + 1].op = "clock_bits_out"

\* C24: a read under the default margin of three opened with three steps (high,
\* high), three steps (high, low) and one step (low, low) before the address byte
C24_Witness ==
    /\ last.op = "read"
    /\ last.result = "Ok"
    /\ last.margin = DefaultStartStopCmds
    /\ Run(SentCmds(last.io), 0, 3, 1, 1)
    /\ Run(SentCmds(last.io), 3, 3, 1, 0)
    /\ Run(SentCmds(last.io), 6, 1, 0, 0)
    /\ SentCmds(last.io)[8] = clock_bits_out(BITS_OUT, Or8(Shl8(last.addr, 1), 1), 8)

\* the last I2C call sent its whole transaction: it returned Ok, or it ran fast
I2cCompleted == I2cRan /\ (last.result = "Ok" \/ last.fast)

\* C25: a completed I2C transaction ends with the STOP condition and the release:
\* from clock low and data low the clock is raised while data is low, then data
\* is raised while the clock is high, each step start_stop_margin times, and
\* then exactly one set-pins command carries the session's recorded value and
\* direction, in which clock, data-out and data-in are inputs.
C25_StopThenRelease ==
    I2cCompleted =>
        LET cmds == Strip(SentCmds(last.io))
            m == last.margin
            L == Len(cmds)
            idle == cmds[L]
        IN  /\ L > 2 * m + 1
            /\ Run(cmds, L - 1 - 2 * m, m, 1, 0)
            /\ Run(cmds, L - 1 - m, m, 1, 1)
            /\ m >= 1 => IsStep(cmds[L - 1 - 2 * m], 0, 0)
            /\ ~IsStep(cmds[L - 1 - 2 * m], 1, 0)
            /\ idle.op = "set_gpio_lower"
            /\ idle.x = value
            /\ idle.y = direction
            /\ \A pin \in 0 .. 2 : Bit(idle.y, pin) = 0
            /\ cmds[L - 1] # idle

\* C25: a slow write_read under the default margin, with the output on pin 3 high,
\* returned Ok: three steps (high, low), three steps (high, high), and the release
\* that carries value 8 and direction 8
C25_Witness ==
    /\ last.op = "write_read"
    /\ ~last.fast
    /\ last.result = "Ok"
    /\ last.margin = DefaultStartStopCmds
    /\ value = 8
    /\ direction = 8
    /\ EndsWith(Strip(SentCmds(last.io)),
                << set_gpio_lower(9, 11), set_gpio_lower(9, 11), set_gpio_lower(9, 11),
                   set_gpio_lower(11, 11), set_gpio_lower(11, 11), set_gpio_lower(11, 11),
                   set_gpio_lower(8, 8) >>)

\* the position in cmds of the k-th 1-bit clock-in, the k-th ACK sample
AckPos(cmds, k) ==
    CHOOSE i \in 1 .. Len(cmds) :
        /\ cmds[i].op = "clock_bits_in" /\ cmds[i].y = 1
        /\ CountOp(SubSeq(cmds, 1, i), "clock_bits_in", 1) = k

\* the last call is a write_read that sent the address with the read bit
ReachedReadAddress ==
    /\ I2cRan
    /\ last.op = "write_read"
    /\ CountOp(SentCmds(last.io), "clock_bits_in", 1) = 2 + Len(last.wr)

\* the commands between the last payload ACK sample and the read-address ACK sample
RepeatedStart ==
    LET cmds == Strip(SentCmds(last.io))
    IN  SubSeq(cmds, AckPos(cmds, 1 + Len(last.wr)) + 1, AckPos(cmds, 2 + Len(last.wr)) - 1)

\* what a standalone read of the same address and margin sends before its ACK sample
StandaloneStart ==
    LET cmds == Strip(TripCmds(read_fast(last.addr, 1, last.margin, value, direction)))
    IN  SubSeq(cmds, 1, AckPos(cmds, 1) - 1)

\* data rises while the clock is held high, from one set-pins command to the next
HasStop(cmds) ==
    \E i \in 1 .. (Len(cmds) - 1) : IsStep(cmds[i], 1, 0) /\ IsStep(cmds[i + 1], 1, 1)

\* C26 as stated: in write_read the commands between the last payload ACK sample
\* and the read-address ACK sample are exactly the START sequence and address
\* byte (address<<1 | 1) of a standalone read of the same address and margin,
\* and they hold no STOP condition.
C26_RepeatedStartIsReadStart ==
    ReachedReadAddress =>
        /\ RepeatedStart = StandaloneStart
        /\ ~HasStop(RepeatedStart)

\* C26: a write_read under the default margin sent, after its payload, three steps
\* (high, high), three (high, low) and three (low, low) before the address byte
\* with the read bit, where a read sends the step (low, low) once
C26_Witness ==
    /\ ReachedReadAddress
    /\ last.result = "Ok"
    /\ last.margin = DefaultStartStopCmds
    /\ Run(RepeatedStart, 0, 3, 1, 1)
    /\ Run(RepeatedStart, 3, 3, 1, 0)
    /\ Run(RepeatedStart, 6, 3, 0, 0)
    /\ RepeatedStart[10] = clock_bits_out(BITS_OUT, Or8(Shl8(last.addr, 1), 1), 8)
    /\ Len(StandaloneStart) = 9
    /\ StandaloneStart[8] = RepeatedStart[10]
    /\ ~HasStop(RepeatedStart)

\* the commands that clock bits, in issuance order
Clocked(cmds) == SelectSeq(cmds, LAMBDA c : c.op \in {"clock_bits_out", "clock_bits_in"})

\* the bits the master clocks out singly: its ACK (0) or NAK (0x80) of a byte read
MasterBits(cmds) == SelectSeq(cmds, LAMBDA c : c.op = "clock_bits_out" /\ c.y = 1)

\* every 8-bit clock-in is followed, as the next clocked command, by a single bit
\* out: 0 after each byte but the n-th, the top bit of 0x80 after the n-th
AnswersEachByte(cmds, n) ==
    LET ck == Clocked(cmds)
        bytes_in == {p \in 1 .. Len(ck) : ck[p].op = "clock_bits_in" /\ ck[p].y = 8}
    IN  /\ Cardinality(bytes_in) = n
        /\ \A p \in bytes_in :
               LET k == Cardinality({q \in bytes_in : q <= p})
               IN  /\ p < Len(ck)
                   /\ ck[p + 1] = clock_bits_out(BITS_OUT, IF k = n THEN 128 ELSE 0, 1)
        /\ Len(MasterBits(cmds)) = n
        /\ Cardinality({p \in 1 .. Len(ck) : ck[p] = clock_bits_out(BITS_OUT, 128, 1)}) = 1
        /\ ck[Len(ck)] = clock_bits_out(BITS_OUT, 128, 1)

ReadCall == I2cRan /\ last.op \in {"read", "write_read"}

\* C27 as stated: every read, and every read phase of a write_read, of n >= 1 bytes
\* sends exactly n 8-bit clock-in commands in both strategies, answers the first
\* n - 1 with a single bit 0 and the n-th with a single bit of 0x80, and sends
\* exactly one master NAK per transaction, the last bit clocked before STOP.
C27_EveryReadEndsInOneNak ==
    ReadCall => AnswersEachByte(Strip(SentCmds(last.io)), last.rdlen)

\* C27: a read, or the read phase of a write_read, of n >= 1 bytes that is reached
\* (always in fast mode, in slow mode when the address and payload were
\* acknowledged) sends exactly n 8-bit clock-in commands, a single bit 0 after
\* each of the first n - 1 and a single bit of 0x80 after the n-th, which is the
\* only master NAK and the last bit clocked before STOP; a slow call refused
\* before its read phase clocks no byte in and sends no master ACK or NAK.
C27_ReachedReadEndsInOneNak ==
    ReadCall =>
        LET cmds == Strip(SentCmds(last.io))
        IN  IF I2cCompleted
            THEN /\ AnswersEachByte(cmds, last.rdlen)
                 /\ EndsWith(cmds, StopIdleSeq(last.margin, value, direction))
                 /\ cmds[Len(cmds) - 3 * last.margin - 1] = clock_bits_out(BITS_OUT, 128, 1)
            ELSE /\ CountOp(cmds, "clock_bits_in", 8) = 0
                 /\ MasterBits(cmds) = <<>>

\* C27: a slow write_read that read two bytes answered the first with the bit 0
\* and the second with the top bit of 0x80
C27_Witness ==
    /\ last.op = "write_read"
    /\ ~last.fast
    /\ last.result = "Ok"
    /\ last.rdlen = 2
    /\ last.buf = << DataByte(1), DataByte(2) >>
    /\ MasterBits(SentCmds(last.io))
           = << clock_bits_out(BITS_OUT, 0, 1), clock_bits_out(BITS_OUT, 128, 1) >>

\* the bytes clocked out whole, in issuance order: address bytes and payload
BytesOut(cmds) == SelectSeq(cmds, LAMBDA c : c.op = "clock_bits_out" /\ c.y = 8)

AddressByte(a, r) == clock_bits_out(BITS_OUT, (2 * a + r) % 256, 8)

\* C28: the address byte is clocked out as 8 bits, MSB first, and is
\* (2 * address + r) mod 256, r = 0 for a write and r = 1 for a read, which for a
\* 7-bit address a is 2a and 2a + 1; it is the first command that clocks bits
\* after START in every transaction; write_read sends the address with r = 0
\* first and, after the payload and the repeated start, the same address with r = 1.
C28_AddressByte ==
    /\ \A a \in U8 :
           /\ Shl8(a, 1) = (2 * a) % 256
           /\ Or8(Shl8(a, 1), 1) = (2 * a + 1) % 256
           /\ a < 128 => (Shl8(a, 1) = 2 * a /\ Or8(Shl8(a, 1), 1) = 2 * a + 1)
    /\ I2cRan =>
           LET cmds == Strip(SentCmds(last.io))
               ck == Clocked(cmds)
               out == BytesOut(cmds)
               nw == Len(last.wr)
           IN  /\ ck[1] = AddressByte(last.addr, IF last.op = "read" THEN 1 ELSE 0)
               /\ ck[1].mode = "MsbNeg"
               /\ \E p \in 1 .. Len(cmds) :
                      /\ cmds[p] = ck[1]
                      /\ \A j \in 1 .. (p - 1) : cmds[j].op = "set_gpio_lower"
                      /\ p > 2 * last.margin
                      /\ Run(cmds, 0, last.margin, 1, 1)
                      /\ Run(cmds, last.margin, last.margin, 1, 0)
               /\ last.op = "read" => out = << AddressByte(last.addr, 1) >>
               /\ last.op = "write" =>
                      /\ IsPrefix(out, << AddressByte(last.addr, 0) >>
                                         \o [k \in 1 .. nw |-> clock_bits_out(BITS_OUT, last.wr[k], 8)])
               /\ last.op = "write_read" =>
                      /\ IsPrefix(out, << AddressByte(last.addr, 0) >>
                                         \o [k \in 1 .. nw |-> clock_bits_out(BITS_OUT, last.wr[k], 8)]
                                         \o << AddressByte(last.addr, 1) >>)
                      /\ ReachedReadAddress =>
                             /\ Len(out) = nw + 2
                             /\ RepeatedStart[Len(RepeatedStart) - 1] = AddressByte(last.addr, 1)

\* C28: a write_read to the address 211, above the 7-bit range, sent 166 with
\* its payload and 167 after the repeated start
C28_Witness ==
    /\ ReachedReadAddress
    /\ last.addr = 211
    /\ last.wr = << 222 >>
    /\ BytesOut(SentCmds(last.io))
           = << clock_bits_out(BITS_OUT, 166, 8), clock_bits_out(BITS_OUT, 222, 8),
                clock_bits_out(BITS_OUT, 167, 8) >>

(***************************************************************************)
(* GPIO output: the frame of set.                                          *)
(***************************************************************************)
\* the step is set(state) on the handle of pin i and returned Ok
SetsOutput(i, state) ==
    /\ OutputPinSet(state) \/ OutputPinSbbSet(state)
    /\ last'.idx = i
    /\ last'.result = "Ok"

\* the one command of a set, carrying the whole value byte after the update
OneCommandWithValue ==
    IF last'.op = "OutputPin::set"
    THEN last'.io = << SendEv(<< set_gpio_lower(value', direction'), send_immediate >>) >>
    ELSE SelectSeq(last'.io, LAMBDA e : e.ev # "read_to_end") = << WriteAllEv(<< value' >>) >>

\* C29: under both engines the recorded value bit of an output pin is the last
\* state set on it, 0 if it was never set: a pin becomes an output with value bit
\* 0, a set that returns Ok makes its pin's bit the state given, leaves every
\* other value bit, direction and ownership as they were and sends exactly one
\* command, which carries the whole updated value byte, and no other step changes
\* the value bit of an output pin.
C29_SetWritesOwnBitOnly ==
    [][\A i \in PinIdx :
          /\ (pins[i] # "Output" /\ pins'[i] = "Output") => Bit(value', i) = 0
          /\ \A state \in BOOLEAN :
                 SetsOutput(i, state) =>
                     /\ pins[i] = "Output"
                     /\ Bit(value', i) = (IF state THEN 1 ELSE 0)
                     /\ \A j \in PinIdx \ {i} : Bit(value', j) = Bit(value, j)
                     /\ UNCHANGED <<pins, direction, upper, handles>>
                     /\ OneCommandWithValue
          /\ (pins[i] = "Output" /\ ~\E state \in BOOLEAN : SetsOutput(i, state)) =>
                 Bit(value', i) = Bit(value, i)
    ]_vars

\* C29: with the outputs on pins 3 and 4 both set high, pin 3 was set low: the
\* command sent carries 0x10, and pin 4 is still high
C29_Witness ==
    /\ session = "mpsse"
    /\ pins[3] = "Output"
    /\ pins[4] = "Output"
    /\ last.op = "OutputPin::set"
    /\ last.idx = 3
    /\ last.io = << SendEv(<< set_gpio_lower(16, 24), send_immediate >>) >>
    /\ value = 16

(***************************************************************************)
(* The registry and the masks.                                             *)
(***************************************************************************)
\* what the ownership table says about the direction and value bit of pin i
PinAgrees(i) ==
    /\ pins[i] = None => (Bit(direction, i) = 0 /\ Bit(value, i) = 0)
    /\ pins[i] = "Output" => Bit(direction, i) = 1
    /\ pins[i] = "Input" => (Bit(direction, i) = 0 /\ Bit(value, i) = 0)
    /\ pins[i] = "Spi" => (i \in {0, 1, 2} /\ Bit(direction, i) = (IF i = 2 THEN 0 ELSE 1))
    /\ pins[i] = "I2c" => (i \in {0, 1, 2} /\ Bit(direction, i) = 0 /\ Bit(value, i) = 0)

\* an acquisition changes direction and value only in the bits of its own pins
AcquisitionFrame ==
    nacq' = nacq + 1 =>
        \A j \in PinIdx \ Required(last'.op, last'.idx) :
            /\ Bit(direction', j) = Bit(direction, j)
            /\ Bit(value', j) = Bit(value, j)

\* C30 as stated: in every reachable state of a session the masks agree with the
\* ownership table (no owner: direction 0, value 0; output: direction 1; input:
\* direction 0, value 0; SPI: pins 0 and 1 direction 1, pin 2 direction 0; I2C:
\* direction 0, value 0), and acquiring a peripheral changes no direction or
\* value bit of a pin it does not own.
C30_MasksAgreeWithOwnership ==
    /\ [](\A i \in PinIdx : PinAgrees(i))
    /\ [][AcquisitionFrame]_vars

\* What holds of the registry everywhere: the masks agree with the ownership
\* table in every reachable state in which no acquisition has panicked, and an acquisition changes no direction or
\* value bit of a pin it does not own; an SPI acquisition that panics on its
\* second, third or chip-select pin has tagged the pins before it as SPI and has
\* not written direction, so there pin 0 or 1 is tagged SPI with direction 0,
\* and every other clause still holds.
C30_MasksAgreeUnlessPanicked ==
    /\ [](\A i \in PinIdx :
             /\ ~poisoned => PinAgrees(i)
             /\ pins[i] # "Spi" => PinAgrees(i)
             /\ (pins[i] = "Spi" /\ ~PinAgrees(i)) =>
                    (poisoned /\ i \in {0, 1} /\ Bit(direction, i) = 0 /\ Bit(value, i) = 0))
    /\ [][AcquisitionFrame]_vars

\* C30: the SPI bus beside an output on pin 5 that was set high
C30_Witness ==
    /\ ~poisoned
    /\ pins[0] = "Spi" /\ pins[1] = "Spi" /\ pins[2] = "Spi"
    /\ pins[5] = "Output"
    /\ last.op = "Spi::new"
    /\ last.result = "Ok"
    /\ direction = 35
    /\ value = 32

(***************************************************************************)
(* Failed acquisitions.                                                    *)
(***************************************************************************)
\* the step is a bus acquisition on a usable session that needs an owned pin
BusAcquisitionConflict ==
    /\ ~poisoned
    /\ AcquiresOwnedPin
    /\ last'.op \in {"Spi::new", "SpiDevice::new", "I2c::new"}

\* C31: a bus acquisition (SPI, I2C, SPI device) that fails because one of its
\* required pins is already owned, in particular only the last one it checks,
\* makes none of its other required pins owned and leaves direction and value
\* unchanged.
C31_AcquisitionAllOrNothing ==
    [][ BusAcquisitionConflict =>
            /\ last'.result = "Panic"
            /\ pins' = pins
            /\ direction' = direction
            /\ value' = value ]_vars

\* C31: the SPI bus was asked for while only pin 2, the last one it checks, was
\* owned; the call panicked and pins 0 and 1 carry its tag
C31_Witness ==
    /\ last.op = "Spi::new"
    /\ last.result = "Panic"
    /\ pins[2] = "Output"
    /\ pins[0] = "Spi"
    /\ pins[1] = "Spi"
    /\ direction = 4

(***************************************************************************)
(* Chip select outside a transaction.                                      *)
(***************************************************************************)
\* the set-pins command c drives pin idx as an output at level 1
DrivesHigh(c, idx) == Bit(c.y, idx) = 1 /\ Bit(c.x, idx) = 1

\* C32: outside a SpiDevice transaction the chip-select pin is never driven low:
\* every set-pins command a peripheral of the session sends while no transaction
\* is in progress (the one of SpiDevice::new, those of other GPIO outputs, those
\* of later acquisitions) carries the chip-select bit as an output at level 1.
C32_ChipSelectIdlesHigh ==
    \A h \in handles :
        (h.kind = "SpiDevice" /\ last.op # "SpiDevice::transaction") =>
            \A j \in 1 .. Len(SetPinsCmds(last.io)) :
                DrivesHigh(SetPinsCmds(last.io)[j], h.idx)

\* C32: with an SPI device on chip select 3, the output on pin 4 was set high and
\* its set-pins command drives pin 3 as an output at level 0
C32_Witness ==
    /\ \E h \in handles : h.kind = "SpiDevice" /\ h.idx = 3
    /\ last.op = "OutputPin::set"
    /\ last.idx = 4
    /\ last.result = "Ok"
    /\ SetPinsCmds(last.io) = << set_gpio_lower(16, 27) >>

(***************************************************************************)
(* A send that fails in an acquisition or a GPIO write.                    *)
(***************************************************************************)
\* caller t takes the lock for an acquisition or an OutputPin::set whose send fails
SendFailsIn(t) ==
    /\ pc[t].at = "wait"
    /\ pc'[t].at = "in"
    /\ pc'[t].req.op \in AcqOps \cup {"OutputPin::set"}
    /\ pc'[t].ret.result = "Err"

\* C33: if the transport send fails during OutputPin::set or during a peripheral
\* acquisition, the recorded value, direction and ownership are the same as
\* before the call (so the masks equal the last set-pins command the chip
\* accepted, and the pin of a failed acquisition can be acquired again).
C33_FailedSendRollsBack ==
    [][ \A t \in Threads :
            SendFailsIn(t) =>
                /\ pins' = pins
                /\ direction' = direction
                /\ value' = value ]_vars

\* C33: the send of OutputPin::new failed and the call returned the error; the pin
\* is recorded as an owned output
C33_Witness ==
    /\ last.op = "OutputPin::new"
    /\ last.result = "Err"
    /\ Len(last.io) = 1
    /\ last.io[1].err
    /\ pins[last.idx] = "Output"
    /\ Bit(direction, last.idx) = 1
    /\ handles = {}
    /\ \A t \in Threads : pc[t].at = "idle"

(***************************************************************************)
(* The session after an allocation conflict.                               *)
(***************************************************************************)
\* C34: an allocation conflict does not make the session unusable for handles
\* acquired earlier: after an acquisition has failed because a pin was already
\* owned, a later operation through an already acquired handle still obtains the
\* session lock and completes.
C34_ConflictLeavesSessionUsable ==
    [][ (poisoned /\ last'.op = "OutputPin::set" /\ last' # last) =>
            /\ last'.result = "Ok"
            /\ Len(SetPinsCmds(last'.io)) = 1 ]_vars

\* C34: after an acquisition of an owned pin had panicked, set was called on the
\* output pin acquired before it: it panicked in mtx.lock() and sent nothing
C34_Witness ==
    /\ poisoned
    /\ \E h \in handles : h.kind = "Output" /\ h.idx = last.idx
    /\ last.op = "OutputPin::set"
    /\ last.result = "Panic"
    /\ last.io = <<>>
    /\ session = "mpsse"

(***************************************************************************)
(* One bus peripheral per session.                                         *)
(***************************************************************************)
BusAcqOps == {"Spi::new", "SpiDevice::new", "I2c::new"}
BusKinds == {"Spi", "SpiDevice", "I2c"}
BusPins == {0, 1, 2}

\* the step is a bus acquisition that returned its handle
BusAcquired ==
    /\ nacq' = nacq + 1
    /\ last'.op \in BusAcqOps
    /\ last'.result = "Ok"

\* C35: after any sequence of acquisitions at most one bus peripheral among I2C,
\* SPI bus and SPI device has been acquired successfully: a bus acquisition
\* succeeds only when pins 0, 1 and 2 have no owner, it gives all three an owner,
\* that owner stays, and at most one bus handle exists; an SPI device whose
\* chip-select index is 0, 1 or 2 is never acquired, whatever the registry holds.
C35_AtMostOneBusPeripheral ==
    /\ [](/\ Cardinality({h \in handles : h.kind \in BusKinds}) <= 1
          /\ \A h \in handles : h.kind = "SpiDevice" => h.idx \notin BusPins
          /\ \A cs \in BusPins : SpiDevice_new(Inner, cs).result = "Panic"
          /\ (last.op = "SpiDevice::new" /\ last.idx \in BusPins) => last.result = "Panic")
    /\ [][ /\ BusAcquired =>
                 /\ \A i \in BusPins : pins[i] = None /\ pins'[i] # None
                 /\ {h \in handles' : h.kind \in BusKinds} \ handles # {}
           /\ \A i \in BusPins : pins[i] # None => pins'[i] = pins[i]
           /\ \A h \in handles' \ handles : h.kind \in BusKinds => BusAcquired ]_vars

\* C35: with the I2C bus acquired, an SPI device on chip select 3 was asked for
\* and refused
C35_Witness ==
    /\ \E h \in handles : h.kind = "I2c"
    /\ \A i \in BusPins : pins[i] = "I2c"
    /\ last.op = "SpiDevice::new"
    /\ last.idx = 3
    /\ last.result = "Panic"
    /\ pins[3] = None

(***************************************************************************)
(* I2C transactions and the other pins.                                    *)
(***************************************************************************)
\* the pins the I2C commands do not compute: 2 (data in) and the GPIO pins 3..7
NotClockOrData == 2 .. 7

\* the set of set-pins commands among the transport sends io
SetPinsSent(io) ==
    {c \in UNION {{io[k].cmds[j] : j \in DOMAIN io[k].cmds} : k \in DOMAIN io} :
        c.op = "set_gpio_lower"}

\* C36: every set-pins command sent during an I2C transaction (fast or slow, any
\* margin) carries in bits 2..7 exactly the recorded value and direction bits,
\* and the transaction leaves the recorded direction, value and ownership
\* unchanged: a GPIO output on pins 3..7 keeps its level from START to idle.
C36_I2cKeepsOtherPins ==
    [][ last'.op \in I2cOps =>
            /\ \A c \in SetPinsSent(last'.io) :
                   \A i \in NotClockOrData :
                       /\ Bit(c.x, i) = Bit(value, i)
                       /\ Bit(c.y, i) = Bit(direction, i)
            /\ pins' = pins
            /\ direction' = direction
            /\ value' = value ]_vars

\* C36: a slow write of two bytes that ended Ok beside a GPIO output held high
C36_Witness ==
    /\ last.op = "write"
    /\ ~last.fast
    /\ last.result = "Ok"
    /\ Len(last.wr) = 2
    /\ \E i \in 3 .. 7 : pins[i] = "Output" /\ Bit(value, i) = 1
    /\ Len(SetPinsCmds(last.io)) > 6

(***************************************************************************)
(* I2C: the pins while bits are clocked.                                   *)
(***************************************************************************)
\* p is the position of the most recent set-pins command before position j
MostRecentSetPins(cmds, p, j) ==
    /\ cmds[p].op = "set_gpio_lower"
    /\ \A q \in (p + 1) .. (j - 1) : cmds[q].op # "set_gpio_lower"

\* the command at j is clocked with the pins as the direction of the bit asks
ClockedOnRightPins(cmds, j) ==
    \E p \in 1 .. (j - 1) :
        /\ MostRecentSetPins(cmds, p, j)
        /\ IF cmds[j].op = "clock_bits_out"
           THEN Bit(cmds[p].x, 0) = 0 /\ Bit(cmds[p].y, 0) = 1 /\ Bit(cmds[p].y, 1) = 1
           ELSE Bit(cmds[p].y, 1) = 0

\* C37: in every I2C transaction and for every start_stop_margin value (0
\* included), each clock-bits-out command is executed while the most recent
\* set-pins command has the clock driven low and data-out enabled as an output,
\* and each clock-bits-in command while the most recent set-pins command has
\* data-out disabled (an input).
C37_BitsClockedOnRightPins ==
    last.op \in I2cOps =>
        \A cmds \in {SentCmds(last.io)} :
            \A j \in 1 .. Len(cmds) :
                cmds[j].op \in {"clock_bits_out", "clock_bits_in"} =>
                    ClockedOnRightPins(cmds, j)

\* C37: a write_read with start_stop_cmds 0 that ended Ok: its read address was
\* clocked out right after the ACK sample of the last payload byte, with no
\* set-pins command in between
C37_Witness ==
    /\ last.op = "write_read"
    /\ last.margin = 0
    /\ last.result = "Ok"
    /\ \E cmds \in {Strip(SentCmds(last.io))} :
           \E j \in 2 .. Len(cmds) :
               /\ cmds[j] = clock_bits_out(BITS_OUT, Or8(Shl8(last.addr, 1), 1), 8)
               /\ cmds[j - 1] = clock_bits_in(BITS_IN, 1)

(***************************************************************************)
(* I2C: fast and slow mode return the same.                                *)
(***************************************************************************)
\* the last call run again in the other mode, against the same slave
OtherMode ==
    RunTrips(Encode(~last.fast), 1, slave, Acc(<<>>, <<>>, 0, 0, <<>>, Zeros(last.rdlen), "Ok"))

\* C38: for the same address, payload, read length and the same per-position
\* slave answers (ACK bits and data bytes), read, write and write_read return the
\* same result (Ok or NoAcknowledge) in fast and in slow mode, and on Ok the read
\* buffer holds the same bytes.
C38_FastAndSlowReturnTheSame ==
    I2cRan =>
        \A o \in {OtherMode} :
            /\ o.result = last.result
            /\ last.result = "Ok" => o.buf = last.buf
            /\ last.result = "Ok" => Len(last.buf) = last.rdlen

\* C38: a fast write_read of two bytes out and two in whose second payload byte
\* was not acknowledged: all four ACK samples were read, the call returned
\* NoAcknowledge
C38_Witness ==
    /\ last.op = "write_read"
    /\ last.fast
    /\ last.result = "Nak"
    /\ Len(last.wr) = 2
    /\ last.rdlen = 2
    /\ Len(last.acks) = 4
    /\ ~IsNak(last.acks[1])
    /\ ~IsNak(last.acks[2])
    /\ IsNak(last.acks[3])
    /\ ~IsNak(last.acks[4])

(***************************************************************************)
(* The session lock is released and every caller gets through.             *)
(***************************************************************************)
\* some caller has started an operation that has not returned
SomeoneBusy == \E t \in Threads : pc[t].at # "idle"

\* some caller can take the lock, make its next transport call or drop the guard
SomeoneCanStep ==
    \E t \in Threads :
        \/ CanLock(t)
        \/ pc[t].at = "in" /\ pc[t].k <= pc[t].ends[pc[t].seg]

\* C39: every operation releases the session lock on each of its exit paths
\* (success, NoAcknowledge, transport error), so under a fair lock and a
\* transport that always answers every caller waiting in mtx.lock() eventually
\* gets the lock, every started operation eventually returns, and no reachable
\* state is a deadlock.
C39_LockReleasedAndNoDeadlock ==
    /\ [](\A t \in Threads : pc[t].at \in {"idle", "wait", "out"} => lock # t)
    /\ [](lock # NoThread => pc[lock].at = "in")
    /\ [](SomeoneBusy => SomeoneCanStep)
    /\ \A t \in Threads : (pc[t].at = "wait") ~> (pc[t].at # "wait")
    /\ \A t \in Threads : (pc[t].at # "idle") ~> (pc[t].at = "idle")

\* C39: caller 2 waits in mtx.lock() while caller 1, inside an I2C write whose
\* transport call has failed, still holds the guard
C39_Witness ==
    /\ lock = 1
    /\ pc[1].at = "in"
    /\ pc[1].req.op = "write"
    /\ pc[1].ret.result = "Err"
    /\ pc[1].k = Len(pc[1].io)
    /\ pc[2].at = "wait"

(***************************************************************************)
(* SPI: a read on the bus and a read inside a transaction.                 *)
(***************************************************************************)
\* the last operation is a read of o.n bytes, on the bus or as the whole closure
\* of a device transaction
LastIsRead(o) ==
    /\ o.op = "read"
    /\ last.result = "Ok"
    /\ \/ last.op = "Spi::read" /\ last.wr = o.words /\ last.rdlen = o.n
       \/ last.op = "SpiDevice::transaction" /\ last.closure = << o >>

\* the data-clocking commands of the last operation
ClockDataCmds == SelectSeq(SentCmds(last.io), LAMBDA c : c.op = "clock_data")

\* C40: an SPI bus read emits the same command stream on the exclusive Spi bus
\* and on the bus handed to a SpiDevice transaction closure: for a buffer of
\* length n it clocks out n zero bytes while clocking in n bytes, whatever the
\* buffer held before, and reads back exactly n response bytes.
C40_ReadClocksOutZeros ==
    \A o \in BusOps :
        LastIsRead(o) =>
            /\ Len(ClockDataCmds) = 1
            /\ ClockDataCmds[1].data = Zeros(o.n)
            /\ RecvBytes(last.io) = last.buf
            /\ Len(last.buf) = o.n

\* C40: a transaction whose closure read two bytes into a buffer that held
\* 0xDE 0xAD: the read clocked out 0xDE 0xAD
C40_Witness ==
    /\ last.op = "SpiDevice::transaction"
    /\ last.result = "Ok"
    /\ last.closure = << BusOp("read", Payload(2), 2) >>
    /\ Len(ClockDataCmds) = 1
    /\ ClockDataCmds[1].data = << 222, 173 >>
    /\ Len(last.buf) = 2

====
